---- MODULE Spec2Model ----
(***************************************************************************)
(* A model of the real-job-dates scrapers: the filter evaluators of the    *)
(* batch scripts, the dedup-and-append stores of the browser scripts and   *)
(* the fetch / date / sort / append chain of the API batch scripts.        *)
(*                                                                         *)
(* Text is modelled by TLA+ strings, character by character (Len, SubSeq   *)
(* and \o), so that str.lower, str.split(" "), str.replace and the `in`    *)
(* substring test are computed the way Python computes them.               *)
(***************************************************************************)
EXTENDS Integers, Sequences, FiniteSets, TLC

VARIABLES
    script,     \* which script of the repository this behaviour runs
    query,      \* [title, location] handed to search()
    filters,    \* the filters dict handed to search()
    ghOut,      \* what greenhouse/batch_from_api.search computed, or NotRun
    lvOut,      \* what lever/batch_from_api.search computed, or NotRun
    org,        \* the OrgConfig of greenhouse/batch_from_frontend
    net,        \* what the sites answer to the requests of the script
    csv,        \* the CSV file the script appends to: [exists, lines]
    last,       \* what the latest run of the script did
    prev        \* what the run before it did

vars == <<script, query, filters, ghOut, lvOut, org, net, csv, last, prev>>

----------------------------------------------------------------------------
(* Python's str operations.                                                *)

UpperAlpha == "ABCDEFGHIJKLMNOPQRSTUVWXYZ"
LowerAlpha == "abcdefghijklmnopqrstuvwxyz"

\* one character of str.lower()
LowerChar(c) ==
    IF \E i \in 1..Len(UpperAlpha) : SubSeq(UpperAlpha, i, i) = c
    THEN LET i == CHOOSE k \in 1..Len(UpperAlpha) : SubSeq(UpperAlpha, k, k) = c
         IN  SubSeq(LowerAlpha, i, i)
    ELSE c

RECURSIVE Lower(_)
\* str.lower()
Lower(s) == IF s = "" THEN "" ELSE LowerChar(Head(s)) \o Lower(Tail(s))

\* one character of str.upper()
UpperChar(c) ==
    IF \E i \in 1..Len(LowerAlpha) : SubSeq(LowerAlpha, i, i) = c
    THEN LET i == CHOOSE k \in 1..Len(LowerAlpha) : SubSeq(LowerAlpha, k, k) = c
         IN  SubSeq(UpperAlpha, i, i)
    ELSE c

\* str.capitalize()
Capitalize(s) == IF s = "" THEN "" ELSE UpperChar(Head(s)) \o Lower(Tail(s))

\* s[i-1:j] : the characters i..j of s that exist
Slice(s, i, j) ==
    IF i > Len(s) THEN "" ELSE SubSeq(s, i, IF j > Len(s) THEN Len(s) ELSE j)

\* s[i-1:i] : the character at position i, "" if there is none
CharAt(s, i) == Slice(s, i, i)

\* a.startswith(b)
StartsWith(a, b) == Len(b) <= Len(a) /\ SubSeq(a, 1, Len(b)) = b

\* `sub in s` for strings: substring containment
Contains(s, sub) ==
    \E i \in 0..(Len(s) - Len(sub)) : SubSeq(s, i + 1, i + Len(sub)) = sub

RECURSIVE SplitFrom(_, _, _)
\* str.split(sep) with an explicit one-character separator: every separator
\* cuts, so adjacent separators and an empty string yield empty fields
SplitFrom(s, sep, cur) ==
    IF s = "" THEN <<cur>>
    ELSE IF Head(s) = sep THEN <<cur>> \o SplitFrom(Tail(s), sep, "")
    ELSE SplitFrom(Tail(s), sep, cur \o Head(s))

Split(s, sep) == SplitFrom(s, sep, "")

\* set(s.split(" "))
SplitSet(s) == LET parts == Split(s, " ") IN {parts[i] : i \in 1..Len(parts)}

RECURSIVE Replace(_, _, _)
\* str.replace(old, new), old non-empty: leftmost matches, left to right
Replace(s, old, new) ==
    IF s = "" THEN ""
    ELSE IF StartsWith(s, old)
         THEN new \o Replace(SubSeq(s, Len(old) + 1, Len(s)), old, new)
         ELSE Head(s) \o Replace(Tail(s), old, new)

----------------------------------------------------------------------------
(* The configured rule sets.                                               *)

\* greenhouse/batch_from_api.SEARCH_FILTERS
GH_SEARCH_FILTERS ==
    [ titles |->
        { "engineer", "backend", "back end", "fullstack",
          "full stack", "developer", "python", "javascript",
          "software engineer", "senior engineer", "staff engineer",
          "frontend", "front end", "mobile", "ios", "android" },
      locations |->
        { "canada", "ireland", "dublin", "toronto",
          "singapore", "malaysia", "kuala lumpur",
          "australia", "sydney", "new zealand",
          "london", "romania", "bucharest",
          "united kingdom", "paris", "france",
          "amsterdam", "netherlands", "melbourne",
          "worldwide", "global", "europe",
          "berlin", "germany", "stockholm", "sweden" },
      excluded_roles |->
        { "senior", "principal", "manager", "staff",
          "sr", "snr", "sr.", "snr.",
          "director", "lead" },
      excluded_locations |->
        { "usa", "u.s.a.", "u.s.a", "u.s.", "us",
          "united states", "united states of america",
          "india", "china", "korea" } ]

\* greenhouse/from_api.SEARCH_FILTERS: two lists, in their order
FROM_API_SEARCH_FILTERS ==
    [ titles |->
        << "engineer", "backend", "back end", "fullstack",
           "full stack", "developer", "python", "javascript" >>,
      locations |->
        << "canada", "ireland", "dublin", "toronto",
           "singapore", "malaysia", "kuala lumpur",
           "australia", "sydney", "new zealand",
           "london", "romania", "bucharest",
           "united kingdom", "paris", "france",
           "amsterdam", "netherlands", "melbourne" >> ]

\* lever/batch_from_api.SEARCH_FILTERS (lists in the source; search() only
\* asks whether some entry matches, so their order is not modelled)
LEVER_SEARCH_FILTERS ==
    [ titles |->
        { "engineer", "backend", "back end", "fullstack",
          "full stack", "developer", "python", "javascript",
          "software engineer", "senior engineer", "staff engineer",
          "frontend", "front end", "mobile", "ios", "android",
          "devops", "platform", "infrastructure", "data engineer" },
      locations |->
        { "canada", "ireland", "dublin", "toronto",
          "singapore", "malaysia", "kuala lumpur",
          "australia", "sydney", "new zealand",
          "london", "romania", "bucharest",
          "united kingdom", "paris", "france",
          "amsterdam", "netherlands", "melbourne",
          "remote", "worldwide", "global", "europe",
          "berlin", "germany", "stockholm", "sweden",
          "montreal", "vancouver", "ottawa" } ]

\* greenhouse/companies._EXCLUDED_ROLE_KEYWORDS
EXCLUDED_ROLE_KEYWORDS ==
    { "senior", "principal", "manager", "staff",
      "sr", "snr", "sr.", "snr.",
      "director", "lead" }

\* greenhouse/companies._EXCLUDED_LOCATIONS
EXCLUDED_LOCATIONS ==
    { "usa", "u.s.a.", "u.s.a", "u.s.", "us",
      "united states", "united states of america",
      "india", "china", "korea" }

\* greenhouse/companies._DEFAULT_LOCATIONS
DEFAULT_LOCATIONS ==
    [ stripe |->
        { "canada", "ireland", "dublin", "toronto",
          "singapore", "malaysia", "kuala lumpur",
          "australia", "sydney", "new zealand",
          "london", "romania", "bucharest",
          "united kingdom", "paris", "france",
          "amsterdam", "netherlands", "melbourne",
          "remote", "worldwide", "global", "europe",
          "berlin", "germany", "stockholm", "sweden" },
      lyft |-> { "canada", "emea" } ]

----------------------------------------------------------------------------
(* The filter evaluators.                                                  *)

\* the value of ghOut / lvOut before search() has run
NotRun == [ran |-> FALSE]

\* the mutant of GhSearch: the location inclusion loop is left out, so the
\* location counts as matched
GhSearchNoLocationInclusion(q, f) ==
    LET title_q == SplitSet(Lower(q[1]))
        location_q == SplitSet(Lower(q[2]))
        vetoed == /\ (f.excluded_locations \cap location_q) # {}
                  /\ (f.excluded_locations \cap f.locations) = {}
        role_hit == \E role \in f.excluded_roles : role \in title_q
        titles_matched == \E title \in f.titles : title \in title_q
    IN  [ran |-> TRUE,
         result |-> ~vetoed /\ ~role_hit /\ titles_matched,
         titles_matched |-> ~vetoed /\ ~role_hit /\ titles_matched,
         locations_matched |-> ~vetoed /\ ~role_hit,
         roles_exclusion_passed |-> vetoed \/ ~role_hit,
         locations_exclusion_passed |-> ~vetoed]

\* greenhouse/batch_from_api.search: the returned value and the function's
\* four flags as they stand when it returns
GhSearch(q, f) ==
    LET title_q == SplitSet(Lower(q[1]))
        location_q == SplitSet(Lower(q[2]))
        vetoed == /\ (f.excluded_locations \cap location_q) # {}
                  /\ (f.excluded_locations \cap f.locations) = {}
        role_hit == \E role \in f.excluded_roles : role \in title_q
        titles_matched == \E title \in f.titles : title \in title_q
        locations_matched == \E location \in f.locations : location \in location_q
    IN  IF vetoed
        THEN [ran |-> TRUE, result |-> FALSE,
              titles_matched |-> FALSE, locations_matched |-> FALSE,
              roles_exclusion_passed |-> TRUE,
              locations_exclusion_passed |-> FALSE]
        ELSE IF role_hit
        THEN [ran |-> TRUE, result |-> FALSE,
              titles_matched |-> FALSE, locations_matched |-> FALSE,
              roles_exclusion_passed |-> FALSE,
              locations_exclusion_passed |-> TRUE]
        ELSE [ran |-> TRUE,
              result |-> titles_matched /\ locations_matched,
              titles_matched |-> titles_matched,
              locations_matched |-> locations_matched,
              roles_exclusion_passed |-> TRUE,
              locations_exclusion_passed |-> TRUE]

\* lever/batch_from_api.search: substring tests on the lowered strings
LeverSearch(q, f) ==
    LET title_q == q[1]
        location_q == q[2]
        titles_matched ==
            \E title \in f.titles : Contains(Lower(title_q), Lower(title))
        locations_matched ==
            \E location \in f.locations :
                Contains(Lower(location_q), Lower(location))
    IN  [ran |-> TRUE,
         result |-> titles_matched /\ locations_matched,
         titles_matched |-> titles_matched,
         locations_matched |-> locations_matched]

\* the passes of `for title, location in zip(titles, locations)`: zip stops
\* at the end of the shorter list
Zipped(titles, locations) ==
    1..(IF Len(titles) <= Len(locations) THEN Len(titles) ELSE Len(locations))

\* greenhouse/from_api.search: substring tests on the lowered strings, on
\* the title and the location of each pass of the zip; the flags only go
\* from False to True, so the early return and the final one give the same
\* value
FromApiSearch(q, f) ==
    LET title_q == q[1]
        location_q == q[2]
        passes == Zipped(f.titles, f.locations)
        titles_matched ==
            \E i \in passes :
                i <= Len(f.titles) /\ Contains(Lower(title_q), Lower(f.titles[i]))
        locations_matched ==
            \E i \in passes :
                /\ i <= Len(f.locations)
                /\ Contains(Lower(location_q), Lower(f.locations[i]))
    IN  titles_matched /\ locations_matched

----------------------------------------------------------------------------
(* The filter evaluators applied to bounded inputs.                        *)

\* the filters of the specification's two examples
ExampleFilters ==
    [ titles |-> {"engineer"}, locations |-> {"singapore"},
      excluded_roles |-> {"senior"}, excluded_locations |-> {} ]

OverrideFilters ==
    [ titles |-> {"engineer"}, locations |-> {"canada"},
      excluded_roles |-> {"senior"}, excluded_locations |-> {"united states"} ]

\* single-word exclusion and allowed sets that one location can meet together
CountryFilters ==
    [ titles |-> {"engineer"}, locations |-> {"canada"},
      excluded_roles |-> {"senior"}, excluded_locations |-> {"us"} ]

\* a rule set whose exclusion and allowed sets share a word
SharedWordFilters ==
    [ titles |-> {"engineer"}, locations |-> {"canada", "us"},
      excluded_roles |-> {}, excluded_locations |-> {"us"} ]

RuleSets ==
    { ExampleFilters, OverrideFilters, CountryFilters, SharedWordFilters,
      GH_SEARCH_FILTERS }

QueryTitles ==
    { "Senior Software Engineer", "Software Engineer", "Engineer",
      "Reengineering Analyst", "Staff Accountant" }

QueryLocations ==
    { "Singapore", "Singapore, Remote", "United States, Canada",
      "United States", "US Canada", "Canada", "Bucharest", "Kuala Lumpur" }

\* values of the variables a specification does not use
IdleOrg == [name |-> "stripe", use_exceptions |-> FALSE,
            exclude_senior_roles |-> FALSE, exclude_unwanted_locations |-> FALSE]
NoNet == [answers |-> FALSE]
NoFile == [exists |-> FALSE, lines |-> <<>>]
NoRun == [n |-> 0]

InitSearch ==
    /\ script = "search"
    /\ query \in {<<t, l>> : t \in QueryTitles, l \in QueryLocations}
    /\ filters \in RuleSets
    /\ ghOut = NotRun
    /\ lvOut = NotRun
    /\ org = IdleOrg
    /\ net = NoNet
    /\ csv = NoFile
    /\ last = NoRun
    /\ prev = NoRun

\* a call of greenhouse/batch_from_api.search
CallGhSearch ==
    /\ script = "search"
    /\ ghOut = NotRun
    /\ ghOut' = GhSearch(query, filters)
    /\ UNCHANGED <<script, query, filters, lvOut, org, net, csv, last, prev>>

\* a call of lever/batch_from_api.search
CallLeverSearch ==
    /\ script = "search"
    /\ lvOut = NotRun
    /\ lvOut' = LeverSearch(query, filters)
    /\ UNCHANGED <<script, query, filters, ghOut, org, net, csv, last, prev>>

NextSearch == CallGhSearch \/ CallLeverSearch

SpecSearch == InitSearch /\ [][NextSearch]_vars

----------------------------------------------------------------------------
(* Claims about the filter evaluators, under SpecSearch.                   *)

\* the word tokens of a string: its whitespace-delimited, non-empty fields
WordTokens(s) == SplitSet(s) \ {""}

\* the title meets no excluded role and meets an included title
TitlePasses(q, f) ==
    /\ WordTokens(Lower(q[1])) \cap f.excluded_roles = {}
    /\ WordTokens(Lower(q[1])) \cap f.titles # {}

\* C4: with titles {"engineer"}, locations {"singapore"}, excluded_roles
\* {"senior"} and no excluded locations, greenhouse/batch_from_api.search
\* returns False for ["Senior Software Engineer", "Singapore"] and True for
\* ["Software Engineer", "Singapore, Remote"].
C4_FilterExample ==
    (ghOut.ran /\ filters = ExampleFilters) =>
        /\ query = <<"Senior Software Engineer", "Singapore">>
              => ghOut.result = FALSE
        /\ query = <<"Software Engineer", "Singapore, Remote">>
              => ghOut.result = TRUE

\* C5: with excluded_locations {"united states"} and locations {"canada"},
\* and a title that passes the role veto and the title inclusion, search
\* returns True for the location "United States, Canada" and False for the
\* location "United States".
C5_ExclusionOverrideExample ==
    ( /\ ghOut.ran
      /\ filters.excluded_locations = {"united states"}
      /\ filters.locations = {"canada"}
      /\ TitlePasses(query, filters) ) =>
        /\ query[2] = "United States, Canada" => ghOut.result = TRUE
        /\ query[2] = "United States" => ghOut.result = FALSE

\* C5's case: the two-country location was searched and accepted
C5_Witness ==
    /\ ghOut.ran
    /\ filters = OverrideFilters
    /\ query = <<"Software Engineer", "United States, Canada">>
    /\ ghOut.result = TRUE

\* C6: search's location veto rejects a listing exactly when its location
\* tokens meet excluded_locations and do not meet locations; a listing whose
\* location tokens meet both sets, and whose title passes, is accepted.
C6_VetoWithOverride ==
    ghOut.ran =>
        LET location_q == WordTokens(Lower(query[2]))
            excluded == location_q \cap filters.excluded_locations # {}
            allowed == location_q \cap filters.locations # {}
        IN  /\ (~ghOut.locations_exclusion_passed) <=> (excluded /\ ~allowed)
            /\ (excluded /\ allowed /\ TitlePasses(query, filters))
                  => ghOut.result = TRUE

\* C7: in both batch filter evaluators a rule word matches a title or a
\* location only when it equals, case-insensitively, one of the string's
\* whitespace-delimited word tokens.
C7_TokenBasedMatching ==
    LET title_hit == \E w \in filters.titles :
                        Lower(w) \in WordTokens(Lower(query[1]))
        location_hit == \E w \in filters.locations :
                        Lower(w) \in WordTokens(Lower(query[2]))
    IN  /\ (ghOut.ran /\ ghOut.titles_matched) => title_hit
        /\ (ghOut.ran /\ ghOut.locations_matched) => location_hit
        /\ (lvOut.ran /\ lvOut.titles_matched) => title_hit
        /\ (lvOut.ran /\ lvOut.locations_matched) => location_hit

\* the words of the rule word w are consecutive words of the string s
HasWords(s, w) ==
    LET words == Split(Lower(s), " ")
        parts == Split(w, " ")
    IN  \E i \in 1..(Len(words) - Len(parts) + 1) :
            SubSeq(words, i, i + Len(parts) - 1) = parts

\* C24: under the configured SEARCH_FILTERS of greenhouse/batch_from_api,
\* search matches a listing on every rule word its text holds as consecutive
\* words, the entries of several words included: a location holding an
\* excluded location is vetoed ("United States"), and a listing whose title
\* passes and whose location holds an included location and no excluded one
\* is accepted ("Kuala Lumpur").
C24_EveryRuleWordMatchable ==
    (ghOut.ran /\ filters = GH_SEARCH_FILTERS) =>
        /\ (\E w \in filters.excluded_locations : HasWords(query[2], w))
              => ~ghOut.locations_exclusion_passed
        /\ ( /\ TitlePasses(query, filters)
             /\ \A w \in filters.excluded_locations : ~HasWords(query[2], w)
             /\ \E w \in filters.locations : HasWords(query[2], w) )
              => ghOut.result = TRUE

----------------------------------------------------------------------------
(* Regular expressions and date formats, as far as the scripts use them.   *)

DigitChars == "0123456789"

IsDigit(c) == \E i \in 1..Len(DigitChars) : SubSeq(DigitChars, i, i) = c

\* the value of a decimal digit
DigitValue(c) == (CHOOSE i \in 1..Len(DigitChars) : SubSeq(DigitChars, i, i) = c) - 1

AllDigits(s) == \A i \in 1..Len(s) : IsDigit(SubSeq(s, i, i))

RECURSIVE ToInt(_)
\* int(s) of a non-empty string of digits
ToInt(s) ==
    IF s = "" THEN 0
    ELSE ToInt(SubSeq(s, 1, Len(s) - 1)) * 10 + DigitValue(SubSeq(s, Len(s), Len(s)))

RECURSIVE DigitsAt(_, _)
\* (\d+) at position i: the longest run of digits that starts there
DigitsAt(s, i) ==
    IF i > Len(s) \/ ~IsDigit(SubSeq(s, i, i)) THEN ""
    ELSE SubSeq(s, i, i) \o DigitsAt(s, i + 1)

\* the value of a function that returned None
None == "<None>"

\* Python's truth value of a str-or-None
Truthy(x) == x # None /\ x # ""

\* the least element of a set of positions, 0 for the empty set
Least(S) == IF S = {} THEN 0 ELSE CHOOSE k \in S : \A h \in S : k <= h

\* group 1 of a match whose digits start at position i; None for no match
DigitsOrNone(s, i) == IF i = 0 THEN None ELSE DigitsAt(s, i)

\* the position after `prefix` at the leftmost place where s holds prefix
\* followed by a digit, or 0
AfterPrefixDigit(s, prefix) ==
    Least({i + Len(prefix) : i \in
            {j \in 1..Len(s) : /\ Slice(s, j, j + Len(prefix) - 1) = prefix
                               /\ DigitsAt(s, j + Len(prefix)) # ""}})

\* re.search(prefix + r"(\d+)", s): group 1 of the leftmost match, or None
SearchDigitsAfter(s, prefix) == DigitsOrNone(s, AfterPrefixDigit(s, prefix))

\* the first "/" at or after position i, or 0
NextSlash(s, i) == Least({j \in i..Len(s) : SubSeq(s, j, j) = "/"})

\* [^/]+/(\d+) matches at position i: a non-empty text without "/", then "/"
\* at position k (the first "/" from i on), then a digit
SegmentThenDigitAt(s, i, k) == k > i /\ DigitsAt(s, k + 1) # ""

\* the position of the digits of the leftmost match of
\* prefix + r"[^/]+/(\d+)" in s, or 0
AfterSegment(s, prefix) ==
    Least({NextSlash(s, i + Len(prefix)) + 1 : i \in
            {j \in 1..Len(s) :
                /\ Slice(s, j, j + Len(prefix) - 1) = prefix
                /\ SegmentThenDigitAt(s, j + Len(prefix),
                                      NextSlash(s, j + Len(prefix)))}})

\* re.search(prefix + r"[^/]+/(\d+)", s), prefix ending in "/": group 1 of the
\* leftmost match, or None
SearchSegmentThenDigits(s, prefix) == DigitsOrNone(s, AfterSegment(s, prefix))

\* the first of three re.search results that is a match, else None
FirstMatch(m1, m2, m3) ==
    IF m1 # None THEN m1 ELSE IF m2 # None THEN m2 ELSE m3

\* s is digits with a value from lo to hi
NumberIn(s, lo, hi) == AllDigits(s) /\ ToInt(s) \in lo..hi

\* the number of days of month m of year y
DaysIn(y, m) ==
    IF m \in {4, 6, 9, 11} THEN 30
    ELSE IF m # 2 THEN 31
    ELSE IF (y % 4 = 0 /\ y % 100 # 0) \/ y % 400 = 0 THEN 29
    ELSE 28

\* strptime's %Y-%m-%d on a string of fixed width: dddd-dd-dd that names a
\* day of the calendar
IsYmd(s) ==
    /\ Len(s) = 10
    /\ NumberIn(SubSeq(s, 1, 4), 1, 9999) /\ SubSeq(s, 5, 5) = "-"
    /\ NumberIn(SubSeq(s, 6, 7), 1, 12) /\ SubSeq(s, 8, 8) = "-"
    /\ NumberIn(SubSeq(s, 9, 10), 1,
                DaysIn(ToInt(SubSeq(s, 1, 4)), ToInt(SubSeq(s, 6, 7))))

\* strptime's %H:%M:%S on a string of fixed width: dd:dd:dd within the clock
IsHms(s) ==
    /\ Len(s) = 8
    /\ NumberIn(SubSeq(s, 1, 2), 0, 23) /\ SubSeq(s, 3, 3) = ":"
    /\ NumberIn(SubSeq(s, 4, 5), 0, 59) /\ SubSeq(s, 6, 6) = ":"
    /\ NumberIn(SubSeq(s, 7, 8), 0, 59)

\* strptime's %z: Z, +hhmm or +hh:mm (either sign)
IsUtcOffset(s) ==
    \/ s = "Z"
    \/ /\ Len(s) \in {5, 6}
       /\ SubSeq(s, 1, 1) \in {"+", "-"}
       /\ AllDigits(SubSeq(s, 2, 3))
       /\ IF Len(s) = 6
          THEN SubSeq(s, 4, 4) = ":" /\ NumberIn(SubSeq(s, 5, 6), 0, 59)
          ELSE NumberIn(SubSeq(s, 4, 5), 0, 59)

\* datetime.strptime(s, "%Y-%m-%dT%H:%M:%S%z") does not raise ValueError
MatchesIsoSeconds(s) ==
    /\ Len(s) >= 20
    /\ IsYmd(SubSeq(s, 1, 10)) /\ SubSeq(s, 11, 11) = "T"
    /\ IsHms(SubSeq(s, 12, 19))
    /\ IsUtcOffset(SubSeq(s, 20, Len(s)))

\* %f%z from position 21 on: f, the digits found there, are one to six and
\* the rest is an offset
FractionThenOffset(s, f) ==
    Len(f) \in 1..6 /\ IsUtcOffset(SubSeq(s, 21 + Len(f), Len(s)))

\* datetime.strptime(s, "%Y-%m-%dT%H:%M:%S.%f%z") does not raise ValueError:
\* %f is one to six digits
MatchesIsoFraction(s) ==
    /\ Len(s) >= 22
    /\ IsYmd(SubSeq(s, 1, 10)) /\ SubSeq(s, 11, 11) = "T"
    /\ IsHms(SubSeq(s, 12, 19)) /\ SubSeq(s, 20, 20) = "."
    /\ FractionThenOffset(s, DigitsAt(s, 21))

\* the %z part of a string that matches one of the two ISO formats
UtcOffsetOf(s) ==
    IF MatchesIsoFraction(s)
    THEN SubSeq(s, 21 + Len(DigitsAt(s, 21)), Len(s))
    ELSE SubSeq(s, 20, Len(s))

\* strftime("%Z") of an aware datetime parsed with %z
TzName(offset) ==
    IF offset \in {"Z", "+00:00", "+0000", "-00:00", "-0000"} THEN "UTC"
    ELSE IF Len(offset) = 6 THEN "UTC" \o offset
    ELSE "UTC" \o SubSeq(offset, 1, 3) \o ":" \o SubSeq(offset, 4, 5)

\* strptime's %Y, %m and %d on the three texts: four digits, one or two, one
\* or two, that name a day of the calendar
ValidYmd(y, m, d) ==
    /\ Len(y) = 4 /\ NumberIn(y, 1, 9999)
    /\ Len(m) \in 1..2 /\ NumberIn(m, 1, 12)
    /\ Len(d) \in 1..2 /\ AllDigits(d) /\ AllDigits(y) /\ AllDigits(m)
    /\ ToInt(d) \in 1..DaysIn(ToInt(y), ToInt(m))

\* the parts are three and ValidYmd
ValidYmdParts(parts) ==
    Len(parts) = 3 /\ ValidYmd(parts[1], parts[2], parts[3])

\* datetime.strptime(s, "%Y-%m-%d") does not raise ValueError
ParsesAsYmd(s) == ValidYmdParts(Split(s, "-"))

\* the order of the days: yyyymmdd as a number
DayKey(y, m, d) == y * 10000 + m * 100 + d

\* DayKey of year, month and day written in parts
KeyOfParts(parts) == DayKey(ToInt(parts[1]), ToInt(parts[2]), ToInt(parts[3]))

\* the order of datetime.strptime(s, "%Y-%m-%d") values
YmdKey(s) == KeyOfParts(Split(s, "-"))

RECURSIVE Digits(_)
\* str(n) of a natural number
Digits(n) ==
    IF n < 10 THEN SubSeq(DigitChars, n + 1, n + 1)
    ELSE Digits(n \div 10) \o SubSeq(DigitChars, (n % 10) + 1, (n % 10) + 1)

\* %m, %d, %H, %M and %S of strftime: two digits
Pad2(n) == IF n < 10 THEN "0" \o Digits(n) ELSE Digits(n)

\* the days from 1970-01-01 to day d of month mp (counted from March) of the
\* year ys (which starts in March)
DaysFromShifted(ys, mp, d) ==
    (ys \div 400) * 146097 + (ys % 400) * 365 + ((ys % 400) \div 4)
        - ((ys % 400) \div 100) + ((153 * mp + 2) \div 5) + d - 1 - 719468

\* the days from 1970-01-01 to a day of the proleptic Gregorian calendar
DaysFromCivil(y, m, d) ==
    IF m <= 2 THEN DaysFromShifted(y - 1, m + 9, d)
    ELSE DaysFromShifted(y, m - 3, d)

\* the calendar day that is day doy of the year y0 starting in March, mp being
\* its month counted from March
CivilOfMonth(y0, doy, mp) ==
    [y |-> IF mp < 10 THEN y0 ELSE y0 + 1,
     m |-> IF mp < 10 THEN mp + 3 ELSE mp - 9,
     d |-> doy - ((153 * mp + 2) \div 5) + 1]

CivilOfDoy(y0, doy) == CivilOfMonth(y0, doy, (5 * doy + 2) \div 153)

CivilOfYoe(era, doe, yoe) ==
    CivilOfDoy(yoe + era * 400,
               doe - (365 * yoe + (yoe \div 4) - (yoe \div 100)))

CivilOfDoe(era, doe) ==
    CivilOfYoe(era, doe,
               (doe - (doe \div 1460) + (doe \div 36524) - (doe \div 146096)) \div 365)

\* the calendar day that is `days` days after 1970-01-01
CivilFromDays(days) ==
    CivilOfDoe((days + 719468) \div 146097, (days + 719468) % 146097)

\* strftime("%Y-%m-%d") of a calendar day
FormatDay(c) == Digits(c.y) \o "-" \o Pad2(c.m) \o "-" \o Pad2(c.d)

\* strftime("%H:%M:%S") of a second of the day
FormatClock(sod) ==
    Pad2(sod \div 3600) \o ":" \o Pad2((sod % 3600) \div 60) \o ":"
        \o Pad2(sod % 60)

\* strftime("%Y-%m-%d %H:%M:%S %Z") of the instant `sod` seconds into the day
\* `days` after 1970-01-01, tzname being what %Z gives ("" for a naive
\* datetime)
Strftime(days, sod, tzname) ==
    FormatDay(CivilFromDays(days)) \o " " \o FormatClock(sod) \o " " \o tzname

\* the seconds east of UTC of a %z offset
OffsetSeconds(offset) ==
    IF offset = "Z" THEN 0
    ELSE (IF SubSeq(offset, 1, 1) = "-" THEN -1 ELSE 1)
         * ( ToInt(SubSeq(offset, 2, 3)) * 3600
           + ToInt(SubSeq(offset, Len(offset) - 1, Len(offset))) * 60 )

\* the seconds from the epoch to the instant written "YYYY-MM-DD?HH:MM:SS" at
\* the start of s, read at the given offset from UTC
EpochOf(s, offset_seconds) ==
    DaysFromCivil(ToInt(SubSeq(s, 1, 4)), ToInt(SubSeq(s, 6, 7)),
                  ToInt(SubSeq(s, 9, 10))) * 86400
    + ToInt(SubSeq(s, 12, 13)) * 3600 + ToInt(SubSeq(s, 15, 16)) * 60
    + ToInt(SubSeq(s, 18, 19)) - offset_seconds

\* strftime("%Y-%m-%d %H:%M:%S %Z") of datetime.astimezone() at an instant, on
\* a machine whose time zone is UTC
LocalStrftime(epoch) == Strftime(epoch \div 86400, epoch % 86400, "UTC")

----------------------------------------------------------------------------
(* The CSV store. A file is its parsed rows, each a sequence of fields, the *)
(* header row included: csv.DictWriter and csv.DictReader quote and unquote *)
(* a field without changing it, so what is read back is what was written.  *)

\* fieldnames of save_to_csv in the two browser scripts
BROWSER_FIELDNAMES == <<"Token", "Title", "Location", "URL", "Date Published">>

\* DictWriter.writerow of a job of the browser scripts
BrowserRow(job) ==
    <<job.Token, job.Title, job.Location, job.URL, job.Date_Published>>

\* the column a csv.DictReader reads a key from: the last one of that name in
\* the header, 0 if there is none
ColumnOf(header, key) ==
    IF \E i \in 1..Len(header) : header[i] = key
    THEN CHOOSE c \in 1..Len(header) :
            header[c] = key /\ \A d \in 1..Len(header) : header[d] = key => d <= c
    ELSE 0

\* the field of a row in column i: the default for no column, None for a row
\* too short to have it
FieldAt(row, i, default) ==
    IF i = 0 THEN default ELSE IF i <= Len(row) THEN row[i] ELSE None

\* row.get(key, default) of a csv.DictReader row
RowGet(header, row, key, default) ==
    FieldAt(row, ColumnOf(header, key), default)

\* the rows csv.DictReader yields: those after the header, empty ones skipped
DataRows(file) ==
    IF file.lines = <<>> THEN <<>>
    ELSE SelectSeq(Tail(file.lines), LAMBDA r : r # <<>>)

\* the mutant of AppendRows: the header is written by every call
AppendRowsUnderHeader(file, fieldnames, rows) ==
    [exists |-> TRUE, lines |-> file.lines \o <<fieldnames>> \o rows]

\* open(file, "a") ... writeheader() if the file is new or empty ... writerows
AppendRows(file, fieldnames, rows) ==
    [exists |-> TRUE,
     lines |-> file.lines
               \o (IF ~file.exists \/ file.lines = <<>> THEN <<fieldnames>> ELSE <<>>)
               \o rows]

----------------------------------------------------------------------------
(* greenhouse/batch_from_frontend and from_browser.                        *)

\* greenhouse/batch_from_frontend.extract_token
FrontendExtractToken(url) ==
    FirstMatch(SearchDigitsAfter(url, "gh_jid="),
               SearchSegmentThenDigits(url, "/listing/"),
               SearchSegmentThenDigits(url, "/jobs/listing/"))

\* from_browser.extract_token
BrowserExtractToken(url) ==
    FirstMatch(SearchSegmentThenDigits(url, "/jobs/listing/"),
               SearchSegmentThenDigits(url, "/listing/"),
               None)

\* the detail page's answer to one request: the request raises
\* RequestException, or the text has a "published_at": "<value>" or has none
\* (published_at = None)
\* greenhouse/batch_from_frontend.get_published_date, given that answer
FrontendGetPublishedDate(resp) ==
    IF resp.raises THEN "1970-01-01"
    ELSE IF /\ resp.published_at # None
            /\ \/ MatchesIsoFraction(resp.published_at)
               \/ MatchesIsoSeconds(resp.published_at)
         THEN SubSeq(resp.published_at, 1, 10)
         ELSE "Date not found"

\* from_browser.get_published_date, given the detail page's answer
BrowserGetPublishedDate(resp) ==
    IF resp.raises THEN "Date not found"
    ELSE IF /\ resp.published_at # None
            /\ \/ MatchesIsoFraction(resp.published_at)
               \/ MatchesIsoSeconds(resp.published_at)
         THEN SubSeq(resp.published_at, 1, 10)
         ELSE "Date not found"

\* the URL fields of the rows csv.DictReader yields
UrlFields(header, rows) ==
    {RowGet(header, rows[i], "URL", "") : i \in 1..Len(rows)}

\* the URL fields of the rows of a non-empty file
StoredUrls(file) == UrlFields(Head(file.lines), DataRows(file))

\* the loop of greenhouse/batch_from_frontend.load_existing_tokens over the
\* stored URLs: the tokens of those that hold "gh_jid"; `"gh_jid" in None`
\* raises TypeError for a row too short to have a URL field
FrontendTokensOf(urls) ==
    IF None \in urls THEN [error |-> "TypeError", tokens |-> {}]
    ELSE [error |-> "",
          tokens |-> {FrontendExtractToken(u) : u \in
                        {v \in urls : /\ Contains(v, "gh_jid")
                                      /\ Truthy(FrontendExtractToken(v))}}]

\* the same loop of from_browser.load_existing_tokens, with "jobs/listing"
BrowserTokensOf(urls) ==
    IF None \in urls THEN [error |-> "TypeError", tokens |-> {}]
    ELSE [error |-> "",
          tokens |-> {BrowserExtractToken(u) : u \in
                        {v \in urls : /\ Contains(v, "jobs/listing")
                                      /\ Truthy(BrowserExtractToken(v))}}]

\* the mutant of FrontendLoadExistingTokens and of BrowserLoadExistingTokens:
\* the store is not read and every token counts as new
LoadExistingTokensSkipped(file) == [error |-> "", tokens |-> {}]

\* greenhouse/batch_from_frontend.load_existing_tokens
FrontendLoadExistingTokens(file) ==
    IF ~file.exists \/ file.lines = <<>> THEN [error |-> "", tokens |-> {}]
    ELSE FrontendTokensOf(StoredUrls(file))

\* from_browser.load_existing_tokens
BrowserLoadExistingTokens(file) ==
    IF ~file.exists \/ file.lines = <<>> THEN [error |-> "", tokens |-> {}]
    ELSE BrowserTokensOf(StoredUrls(file))

\* OrgConfig.get_default_locations
get_default_locations(o) ==
    IF o.name = "lyft" THEN DEFAULT_LOCATIONS.lyft ELSE DEFAULT_LOCATIONS.stripe

\* OrgConfig.get_excluded_roles
get_excluded_roles(o) ==
    IF o.exclude_senior_roles THEN EXCLUDED_ROLE_KEYWORDS ELSE {}

\* OrgConfig.get_excluded_locations
get_excluded_locations(o) ==
    IF o.exclude_unwanted_locations THEN EXCLUDED_LOCATIONS ELSE {}

\* the tests of one pass of save_to_csv's loop, in the order of the code, on
\* the job's location_words, role_words and token: "continue" at a filter,
\* the UnboundLocalError of reading org_locations where special_exceptions
\* never assigned it, the URL without gh_jid, the token that cannot be
\* extracted, the token already stored, and the new job
FrontendTests(o, seen_tokens, url, location_words, role_words, token) ==
    IF /\ o.use_exceptions
       /\ location_words \cap get_default_locations(o) = {}
    THEN "outside_org_locations"
    ELSE IF /\ o.exclude_senior_roles
            /\ role_words \cap get_excluded_roles(o) # {}
    THEN "excluded_role"
    ELSE IF /\ o.exclude_unwanted_locations
            /\ get_excluded_locations(o) \cap location_words # {}
            /\ ~o.use_exceptions
    THEN "UnboundLocalError"
    ELSE IF /\ o.exclude_unwanted_locations
            /\ get_excluded_locations(o) \cap location_words # {}
            /\ location_words \cap get_default_locations(o) = {}
    THEN "excluded_location"
    ELSE IF ~Contains(url, "gh_jid") THEN "no_gh_jid"
    ELSE IF ~Truthy(token) THEN "no_token"
    ELSE IF token \in seen_tokens THEN "seen"
    ELSE "new"

\* what one pass of greenhouse/batch_from_frontend.save_to_csv's loop does
\* with a job
FrontendVerdict(job, o, seen_tokens) ==
    FrontendTests(o, seen_tokens, job.URL,
                  SplitSet(Replace(Lower(job.Location), "remote", "")),
                  SplitSet(Lower(job.Title)),
                  FrontendExtractToken(job.URL))

\* the mutant of BrowserTests: a token already stored counts as new
BrowserTestsSeenAsNew(seen_tokens, url, token) ==
    IF ~Contains(url, "jobs/listing") THEN "no_jobs_listing"
    ELSE IF ~Truthy(token) THEN "no_token"
    ELSE "new"

\* the tests of one pass of from_browser.save_to_csv's loop
BrowserTests(seen_tokens, url, token) ==
    IF ~Contains(url, "jobs/listing") THEN "no_jobs_listing"
    ELSE IF ~Truthy(token) THEN "no_token"
    ELSE IF token \in seen_tokens THEN "seen"
    ELSE "new"

\* what one pass of from_browser.save_to_csv's loop does with a job
BrowserVerdict(job, seen_tokens) ==
    BrowserTests(seen_tokens, job.URL, BrowserExtractToken(job.URL))

\* the job as save_to_csv stores it in new_jobs
NewJob(job, token, date) ==
    [Title |-> job.Title, Location |-> job.Location, URL |-> job.URL,
     Token |-> token, Date_Published |-> date]

\* sorted() puts x after the rows of `done` whose key is not smaller
InsertDescending(done, x) ==
    SubSeq(done, 1, Cardinality({i \in 1..Len(done) : done[i][1] >= x[1]}))
    \o <<x>>
    \o SubSeq(done, Cardinality({i \in 1..Len(done) : done[i][1] >= x[1]}) + 1,
              Len(done))

RECURSIVE SortedDescending(_)
\* sorted(rows, reverse=True, key=...) on <<key, row>> pairs: descending by
\* key, rows of equal key in their original order (the sort is stable)
SortedDescending(pairs) ==
    IF pairs = <<>> THEN <<>>
    ELSE InsertDescending(SortedDescending(SubSeq(pairs, 1, Len(pairs) - 1)),
                          pairs[Len(pairs)])

\* the second components of a sequence of pairs
Seconds(pairs) == [i \in 1..Len(pairs) |-> pairs[i][2]]

\* sorted(new_jobs, reverse=True, key=strptime(d['Date Published'], "%Y-%m-%d"))
SortedByPublishedDay(new_jobs) ==
    Seconds(SortedDescending(
        [i \in 1..Len(new_jobs) |->
            <<YmdKey(new_jobs[i].Date_Published), new_jobs[i]>>]))

\* one pass of the loop of save_to_csv after the passes before it: nothing
\* once a pass has raised, the error of a pass that raises, the job with its
\* token and its published date appended to new_jobs if it is new
FrontendPass(before, job, verdict, token, answers) ==
    IF before.error # "" THEN before
    ELSE IF verdict = "UnboundLocalError"
    THEN [error |-> verdict, new_jobs |-> before.new_jobs]
    ELSE IF verdict = "new"
    THEN [error |-> "",
          new_jobs |-> Append(before.new_jobs,
                              NewJob(job, token,
                                     FrontendGetPublishedDate(answers[token])))]
    ELSE before

RECURSIVE FrontendScan(_, _, _, _)
\* the loop of greenhouse/batch_from_frontend.save_to_csv over jobs
FrontendScan(jobs, o, seen_tokens, answers) ==
    IF jobs = <<>> THEN [error |-> "", new_jobs |-> <<>>]
    ELSE FrontendPass(
            FrontendScan(SubSeq(jobs, 1, Len(jobs) - 1), o, seen_tokens, answers),
            jobs[Len(jobs)],
            FrontendVerdict(jobs[Len(jobs)], o, seen_tokens),
            FrontendExtractToken(jobs[Len(jobs)].URL),
            answers)

\* one pass of the loop of from_browser.save_to_csv
BrowserPass(before, job, verdict, token, answers) ==
    IF verdict = "new"
    THEN [error |-> "",
          new_jobs |-> Append(before.new_jobs,
                              NewJob(job, token,
                                     BrowserGetPublishedDate(answers[token])))]
    ELSE before

RECURSIVE BrowserScan(_, _, _)
\* the loop of from_browser.save_to_csv over jobs
BrowserScan(jobs, seen_tokens, answers) ==
    IF jobs = <<>> THEN [error |-> "", new_jobs |-> <<>>]
    ELSE BrowserPass(
            BrowserScan(SubSeq(jobs, 1, Len(jobs) - 1), seen_tokens, answers),
            jobs[Len(jobs)],
            BrowserVerdict(jobs[Len(jobs)], seen_tokens),
            BrowserExtractToken(jobs[Len(jobs)].URL),
            answers)

\* the mutant of Raised: the file was opened before the exception, and holds
\* the header and the rows of the jobs collected so far
RaisedAfterWriting(file, error, new_jobs) ==
    [file |-> [exists |-> TRUE,
               lines |-> file.lines
                         \o (IF ~file.exists \/ file.lines = <<>>
                             THEN <<<<"Token", "Title", "Location", "URL",
                                      "Date Published">>>>
                             ELSE <<>>)
                         \o [i \in 1..Len(new_jobs) |->
                               <<new_jobs[i].Token, new_jobs[i].Title,
                                 new_jobs[i].Location, new_jobs[i].URL,
                                 new_jobs[i].Date_Published>>]],
     outcome |-> "raised", error |-> error,
     new_jobs |-> new_jobs, appended |-> <<>>]

\* save_to_csv left by an exception: the file is as it was
Raised(file, error, new_jobs) ==
    [file |-> file, outcome |-> "raised", error |-> error,
     new_jobs |-> new_jobs, appended |-> <<>>]

\* save_to_csv returning at "No new jobs to add."
NothingNew(file) ==
    [file |-> file, outcome |-> "no_new_jobs", error |-> "",
     new_jobs |-> <<>>, appended |-> <<>>]

\* the end of save_to_csv: the rows are appended in the order given
Saved(file, new_jobs, rows) ==
    [file |-> AppendRows(file, BROWSER_FIELDNAMES, rows),
     outcome |-> "saved", error |-> "",
     new_jobs |-> new_jobs, appended |-> rows]

\* the rows DictWriter.writerows writes for jobs
BrowserRows(jobs) == [i \in 1..Len(jobs) |-> BrowserRow(jobs[i])]

\* greenhouse/batch_from_frontend.save_to_csv after its loop: sorted() raises
\* ValueError if a Date Published is not a %Y-%m-%d date
FrontendSaveScanned(file, scan) ==
    IF scan.error # "" THEN Raised(file, scan.error, scan.new_jobs)
    ELSE IF scan.new_jobs = <<>> THEN NothingNew(file)
    ELSE IF \E i \in 1..Len(scan.new_jobs) :
                ~ParsesAsYmd(scan.new_jobs[i].Date_Published)
    THEN Raised(file, "ValueError", scan.new_jobs)
    ELSE Saved(file, scan.new_jobs,
               BrowserRows(SortedByPublishedDay(scan.new_jobs)))

\* greenhouse/batch_from_frontend.save_to_csv after load_existing_tokens
FrontendSaveLoaded(jobs, o, file, answers, loaded) ==
    IF loaded.error # "" THEN Raised(file, loaded.error, <<>>)
    ELSE FrontendSaveScanned(file, FrontendScan(jobs, o, loaded.tokens, answers))

\* greenhouse/batch_from_frontend.save_to_csv
FrontendSaveToCsv(jobs, o, file, answers) ==
    FrontendSaveLoaded(jobs, o, file, answers, FrontendLoadExistingTokens(file))

\* from_browser.save_to_csv after its loop: no sort
BrowserSaveScanned(file, scan) ==
    IF scan.new_jobs = <<>> THEN NothingNew(file)
    ELSE Saved(file, scan.new_jobs, BrowserRows(scan.new_jobs))

\* from_browser.save_to_csv after load_existing_tokens
BrowserSaveLoaded(jobs, file, answers, loaded) ==
    IF loaded.error # "" THEN Raised(file, loaded.error, <<>>)
    ELSE BrowserSaveScanned(file, BrowserScan(jobs, loaded.tokens, answers))

\* from_browser.save_to_csv
BrowserSaveToCsv(jobs, file, answers) ==
    BrowserSaveLoaded(jobs, file, answers, BrowserLoadExistingTokens(file))

----------------------------------------------------------------------------
(* greenhouse/batch_from_api.                                              *)

\* a key the JSON object does not have
Absent == "<absent>"

\* greenhouse/batch_from_api.get_formatted_date: strptime raises TypeError
\* for None, and the ValueError of the second format is not caught
get_formatted_date(raw_date) ==
    IF raw_date = None
    THEN [error |-> "TypeError", original |-> "", local |-> ""]
    ELSE IF ~MatchesIsoFraction(raw_date) /\ ~MatchesIsoSeconds(raw_date)
    THEN [error |-> "ValueError", original |-> "", local |-> ""]
    ELSE [error |-> "",
          original |-> SubSeq(raw_date, 1, 10) \o " " \o SubSeq(raw_date, 12, 19)
                       \o " " \o TzName(UtcOffsetOf(raw_date)),
          local |-> LocalStrftime(
                        EpochOf(raw_date, OffsetSeconds(UtcOffsetOf(raw_date))))]

\* get_formatted_date(job[key]): job[key] raises KeyError for an absent key
DateOfKey(value) ==
    IF value = Absent
    THEN [error |-> "KeyError", original |-> "", local |-> ""]
    ELSE get_formatted_date(value)

\* the dict get_all_jobs appends for a job of the payload
GhJob(company, job, published_date, updated_date) ==
    [Company |-> Capitalize(company), Title |-> job.title,
     Location |-> job.location, URL |-> job.absolute_url, Token |-> job.id,
     Date_Published |-> published_date.original,
     Local_Date_Published |-> published_date.local,
     Date_Updated |-> updated_date.original,
     Local_Date_Updated |-> updated_date.local]

\* one pass of the loop of get_all_jobs over data["jobs"]: nothing once a
\* pass has raised, nothing for a job search() rejects, the error of the
\* first date that raises, else the job appended
GhPass(before, company, job, found, published_date, updated_date) ==
    IF before.error # "" \/ ~found.result THEN before
    ELSE IF published_date.error # ""
    THEN [error |-> published_date.error, jobs |-> before.jobs]
    ELSE IF updated_date.error # ""
    THEN [error |-> updated_date.error, jobs |-> before.jobs]
    ELSE [error |-> "",
          jobs |-> Append(before.jobs,
                          GhJob(company, job, published_date, updated_date))]

RECURSIVE GhScan(_, _)
\* the loop of greenhouse/batch_from_api.get_all_jobs
GhScan(company, jobs) ==
    IF jobs = <<>> THEN [error |-> "", jobs |-> <<>>]
    ELSE GhPass(GhScan(company, SubSeq(jobs, 1, Len(jobs) - 1)),
                company,
                jobs[Len(jobs)],
                GhSearch(<<jobs[Len(jobs)].title, jobs[Len(jobs)].location>>,
                         GH_SEARCH_FILTERS),
                DateOfKey(jobs[Len(jobs)].first_published),
                DateOfKey(jobs[Len(jobs)].updated_at))

\* what get_all_jobs left behind, after its loop or after a failed fetch
GhFetched(failed, scan) ==
    [failed |-> failed, error |-> scan.error, jobs |-> scan.jobs]

\* greenhouse/batch_from_api.get_all_jobs, board being what the jobs endpoint
\* answers: a failed request (the company joins failed_companies and [] is
\* returned) or the payload's list of jobs
GhGetAllJobs(company, board) ==
    IF board.fails THEN GhFetched(TRUE, [error |-> "", jobs |-> <<>>])
    ELSE GhFetched(FALSE, GhScan(company, board.jobs))

\* fieldnames of greenhouse/batch_from_api.save_to_csv
GH_API_FIELDNAMES ==
    <<"Company", "Title", "Token", "Location", "URL", "Date Published",
      "Local Date Published", "Date Updated", "Local Date Updated">>

\* DictWriter.writerow of a job of greenhouse/batch_from_api
GhApiRow(job) ==
    <<job.Company, job.Title, job.Token, job.Location, job.URL,
      job.Date_Published, job.Local_Date_Published, job.Date_Updated,
      job.Local_Date_Updated>>

GhApiRows(jobs) == [i \in 1..Len(jobs) |-> GhApiRow(jobs[i])]

\* the order of datetime.min, 0001-01-01, among the YmdKey values
DatetimeMinKey == YmdKey("0001-01-01")

\* sort_key of process_company: strptime(job['Date Published'], "%Y-%m-%d"),
\* datetime.min if that raises
SortKey(date_published) ==
    IF ParsesAsYmd(date_published) THEN YmdKey(date_published)
    ELSE DatetimeMinKey

\* sorted(final_jobs, reverse=True, key=sort_key)
SortedBySortKey(final_jobs) ==
    Seconds(SortedDescending(
        [i \in 1..Len(final_jobs) |->
            <<SortKey(final_jobs[i].Date_Published), final_jobs[i]>>]))

\* process_company left by an exception, or returning 0 for no matching jobs:
\* save_to_csv is not called
NotSaved(file, outcome, fetched) ==
    [file |-> file, outcome |-> outcome, error |-> fetched.error,
     failed |-> fetched.failed, handed |-> <<>>, appended |-> <<>>,
     returned |-> 0]

\* process_company after save_to_csv(sorted_jobs, company), which appends
\* the rows of every job handed to it
SavedAll(file, fieldnames, sorted_jobs, rows) ==
    [file |-> AppendRows(file, fieldnames, rows),
     outcome |-> "saved", error |-> "", failed |-> FALSE,
     handed |-> sorted_jobs, appended |-> rows,
     returned |-> Len(sorted_jobs)]

\* greenhouse/batch_from_api.process_company after get_all_jobs; main()
\* catches what get_all_jobs raised
GhProcessFetched(file, fetched) ==
    IF fetched.error # "" THEN NotSaved(file, "raised", fetched)
    ELSE IF fetched.jobs = <<>> THEN NotSaved(file, "no_matching_jobs", fetched)
    ELSE SavedAll(file, GH_API_FIELDNAMES, SortedBySortKey(fetched.jobs),
                  GhApiRows(SortedBySortKey(fetched.jobs)))

\* greenhouse/batch_from_api.process_company
GhProcessCompany(company, board, file) ==
    GhProcessFetched(file, GhGetAllJobs(company, board))

----------------------------------------------------------------------------
(* lever/batch_from_api: the date of a posting.                            *)

\* what get_published_date returns when a method yields a date, and the value
\* of a method that yields none
Dated(original, local) == [found |-> TRUE, original |-> original, local |-> local]
NotDated == [found |-> FALSE, original |-> "", local |-> ""]

\* the two strftime calls on a naive datetime: %Z is empty for `parsed` and
\* the machine's zone for parsed.astimezone()
NaiveDated(days, sod) ==
    Dated(Strftime(days, sod, ""), Strftime(days, sod, "UTC"))

RECURSIVE StripZeros(_)
\* the digits of int(s) for a string of digits
StripZeros(s) ==
    IF Len(s) > 1 /\ Head(s) = "0" THEN StripZeros(Tail(s)) ELSE s

\* one step of the long division of a decimal number by d
DivStep(p, digit, d) ==
    [q |-> p.q * 10 + ((p.r * 10 + digit) \div d), r |-> (p.r * 10 + digit) % d]

RECURSIVE DivDigits(_, _)
\* quotient and remainder of the number written s divided by d
DivDigits(s, d) ==
    IF s = "" THEN [q |-> 0, r |-> 0]
    ELSE DivStep(DivDigits(SubSeq(s, 1, Len(s) - 1), d),
                 DigitValue(SubSeq(s, Len(s), Len(s))), d)

\* the mutant of Above1e12: 10^12 itself is taken as milliseconds
AtLeast1e12(n) == Len(n) >= 13

\* n > 1e12 for the number written n (no leading zeros)
Above1e12(n) == Len(n) > 13 \/ (Len(n) = 13 /\ n # "1000000000000")

\* the number written n (no leading zeros) is after 9999-12-31 23:59:59, and
\* datetime.fromtimestamp raises ValueError
AfterYear9999(n) ==
    \/ Len(n) > 12
    \/ /\ Len(n) = 12
       /\ \/ ToInt(SubSeq(n, 1, 6)) > 253402
          \/ ToInt(SubSeq(n, 1, 6)) = 253402 /\ ToInt(SubSeq(n, 7, 12)) > 300799

\* days and second of the day of an instant given as quotient and remainder
\* of its seconds by 86400
DatedAt(p) == NaiveDated(p.q, p.r)

\* datetime.fromtimestamp(seconds) and the two strftime calls, NotDated if
\* fromtimestamp raises
FromTimestamp(seconds) ==
    IF AfterYear9999(seconds) THEN NotDated
    ELSE DatedAt(DivDigits(seconds, 86400))

\* n / 1000 of the number written n, above 1e12: the seconds, the fraction
\* of a second left out as strftime leaves it out
Thousandth(n) == SubSeq(n, 1, Len(n) - 3)

\* `if timestamp > 1e12: timestamp = timestamp / 1000` and then
\* datetime.fromtimestamp(timestamp), for the number written n
TimestampDateOf(n) ==
    IF Above1e12(n) THEN FromTimestamp(Thousandth(n)) ELSE FromTimestamp(n)

\* the date of an integer given by its digits
TimestampDate(digits) == TimestampDateOf(StripZeros(digits))

\* the rest of an ISO string after its seconds: nothing, a fraction, an
\* offset +hh:mm, or a fraction and an offset; frac is the digits after "."
IsoTail(rest, frac) ==
    \/ rest = ""
    \/ IsUtcOffset(rest) /\ Len(rest) = 6
    \/ /\ SubSeq(rest, 1, 1) = "."
       /\ Len(frac) \in {3, 6}
       /\ \/ Len(rest) = 1 + Len(frac)
          \/ /\ Len(rest) = 7 + Len(frac)
             /\ IsUtcOffset(SubSeq(rest, 2 + Len(frac), Len(rest)))

\* datetime.fromisoformat(s) does not raise, for the shapes isoformat()
\* writes: a date, or a date, a separator and a time with seconds, then an
\* optional fraction of 3 or 6 digits and an optional offset +hh:mm
IsIsoformat(s) ==
    \/ Len(s) = 10 /\ IsYmd(s)
    \/ /\ Len(s) >= 19
       /\ IsYmd(SubSeq(s, 1, 10))
       /\ IsHms(SubSeq(s, 12, 19))
       /\ IsoTail(SubSeq(s, 20, Len(s)), DigitsAt(s, 21))

\* the offset at the end of an ISO string, "" if it has none
IsoOffsetOf(s) ==
    IF Len(s) >= 25 /\ IsUtcOffset(SubSeq(s, Len(s) - 5, Len(s)))
    THEN SubSeq(s, Len(s) - 5, Len(s))
    ELSE ""

\* the two strftime calls on datetime.fromisoformat(s), s being IsIsoformat
\* and clock its time of day: naive without an offset, else aware
IsoDated(s, clock, offset) ==
    IF offset = ""
    THEN Dated(SubSeq(s, 1, 10) \o " " \o clock \o " ",
               SubSeq(s, 1, 10) \o " " \o clock \o " UTC")
    ELSE Dated(SubSeq(s, 1, 10) \o " " \o clock \o " " \o TzName(offset),
               LocalStrftime(EpochOf(s, OffsetSeconds(offset))))

\* datetime.fromisoformat(s) and the two strftime calls, NotDated if it raises
FromIsoformat(s) ==
    IF ~IsIsoformat(s) THEN NotDated
    ELSE IsoDated(s, IF Len(s) = 10 THEN "00:00:00" ELSE SubSeq(s, 12, 19),
                  IsoOffsetOf(s))

\* the createdAt of a posting's JSON: absent, an int given by its digits, a
\* str, or a value of another type
CreatedAt(kind, text) == [kind |-> kind, text |-> text]

\* Method 1 of get_published_date on the answer of the posting's endpoint:
\* whatever raises is passed over
Method1(detail) ==
    IF detail.raises THEN NotDated
    ELSE IF detail.createdAt.kind = "int"
    THEN TimestampDate(detail.createdAt.text)
    ELSE IF detail.createdAt.kind = "str"
    THEN FromIsoformat(Replace(detail.createdAt.text, "Z", "+00:00"))
    ELSE NotDated

\* the characters \s matches
WhiteSpace == {" ", "\t", "\n", "\r"}

RECURSIVE SkipSpace(_, _)
\* \s* from position i: the position after the white space there
SkipSpace(s, i) ==
    IF i <= Len(s) /\ SubSeq(s, i, i) \in WhiteSpace THEN SkipSpace(s, i + 1)
    ELSE i

RECURSIVE RunNot(_, _, _)
\* [^c]* from position i: the longest run without the character c
RunNot(s, i, c) ==
    IF i > Len(s) \/ SubSeq(s, i, i) = c THEN ""
    ELSE SubSeq(s, i, i) \o RunNot(s, i + 1, c)

RECURSIVE LettersAt(_, _)
\* [A-Za-z]* from position i
LettersAt(s, i) ==
    IF i > Len(s) \/ LowerChar(SubSeq(s, i, i)) = UpperChar(SubSeq(s, i, i))
    THEN ""
    ELSE SubSeq(s, i, i) \o LettersAt(s, i + 1)

\* x if it is not empty, else None
NonEmpty(x) == IF x = "" THEN None ELSE x

\* "([^"]+)" with the opening quote at position k: the run, which is not
\* empty and is closed by a quote
QuotedRun(s, k, run) ==
    IF /\ CharAt(s, k) = "\""
       /\ run # ""
       /\ CharAt(s, k + 1 + Len(run)) = "\""
    THEN run ELSE None

\* "([^"]+)" from position k
QuotedAt(s, k) ==
    IF k > Len(s) THEN None ELSE QuotedRun(s, k, RunNot(s, k + 1, "\""))

\* ([A-Za-z]+ \d+, \d{4}) from position i, given the letters there and the
\* digits after the space that follows them
HumanDate(s, i, letters, day) ==
    IF /\ letters # "" /\ day # ""
       /\ Slice(s, i + Len(letters), i + Len(letters)) = " "
       /\ Slice(s, i + Len(letters) + 1 + Len(day),
                   i + Len(letters) + 2 + Len(day)) = ", "
       /\ Len(DigitsAt(s, i + Len(letters) + 3 + Len(day))) >= 4
    THEN SubSeq(s, i, i + Len(letters) + 6 + Len(day))
    ELSE None

\* ([A-Za-z]+ \d+, \d{4}) from position i, given the letters there
HumanDateAfter(s, i, letters) ==
    HumanDate(s, i, letters, DigitsAt(s, i + Len(letters) + 1))

\* [^>]*>([^<]+) from position i, gt being the position of the next ">"
\* or 0
AfterTag(s, gt) == IF gt = 0 THEN None ELSE NonEmpty(RunNot(s, gt + 1, "<"))

\* the position of the first character c at or after i, 0 if there is none
NextChar(s, i, c) == Least({j \in i..Len(s) : SubSeq(s, j, j) = c})

\* what the group of a date pattern captures when the text after the
\* pattern's literal start begins at position `at`, None if the pattern does
\* not match there
Capture(kind, s, at) ==
    CASE kind = "digits"   -> NonEmpty(DigitsAt(s, SkipSpace(s, at)))
      [] kind = "quoted"   -> QuotedAt(s, SkipSpace(s, at))
      [] kind = "attr"     -> QuotedAt(s, at - 1)
      [] kind = "human"    -> HumanDateAfter(s, at, LettersAt(s, at))
      [] kind = "tag"      -> AfterTag(s, NextChar(s, at, ">"))

\* Capture at position `at`, None for no position
CaptureAt(kind, s, at) == IF at = 0 THEN None ELSE Capture(kind, s, at)

\* re.search(pattern, text, re.IGNORECASE).group(1), or None: the pattern is
\* the literal `start` and then the group of the given kind; low is
\* text.lower(); the leftmost place where all of the pattern matches
Search(kind, start, s, low) ==
    CaptureAt(kind, s,
        Least({j + Len(start) : j \in
                 {h \in 1..Len(low) :
                     /\ Slice(low, h, h + Len(start) - 1) = start
                     /\ Capture(kind, s, h + Len(start)) # None}}))

\* the names %B matches, lower case; %b matches their first three letters
MonthNames ==
    <<"january", "february", "march", "april", "may", "june", "july",
      "august", "september", "october", "november", "december">>

\* the number of the month %B or %b reads in name, 0 if neither matches
MonthOf(name) ==
    Least({m \in 1..12 : \/ MonthNames[m] = name
                         \/ SubSeq(MonthNames[m], 1, 3) = name})

\* the day of (y, m, d) at midnight, naive, if it is a day of the calendar
MidnightOf(valid, y, m, d) ==
    IF valid THEN NaiveDated(DaysFromCivil(ToInt(y), m, ToInt(d)), 0)
    ELSE NotDated

\* strptime with "%B %d, %Y" or "%b %d, %Y" on the words of the text
NamedMonthDate(words, m) ==
    IF Len(words) # 3 \/ m = 0 THEN NotDated
    ELSE IF Len(words[2]) < 2 \/ SubSeq(words[2], Len(words[2]), Len(words[2])) # ","
    THEN NotDated
    ELSE MidnightOf(ValidYmd(words[3], Digits(m),
                             SubSeq(words[2], 1, Len(words[2]) - 1)),
                    words[3], m, SubSeq(words[2], 1, Len(words[2]) - 1))

\* strptime with "%Y-%m-%d" (parts cut at "-", year first) or "%m/%d/%Y"
\* (parts cut at "/", year last)
NumericDate(parts, yi, mi, di) ==
    IF Len(parts) # 3 THEN NotDated
    ELSE MidnightOf(ValidYmd(parts[yi], parts[mi], parts[di]),
                    parts[yi], ToInt(parts[mi]), parts[di])

\* the first of three results that has a date
FirstDated3(a, b, c) == IF a.found THEN a ELSE IF b.found THEN b ELSE c

\* the loop over ["%B %d, %Y", "%b %d, %Y", "%Y-%m-%d", "%m/%d/%Y"]
StrptimeFormats(date_str) ==
    FirstDated3(
        NamedMonthDate(Split(date_str, " "),
                       IF Len(Split(date_str, " ")) = 3
                       THEN MonthOf(Lower(Split(date_str, " ")[1])) ELSE 0),
        NumericDate(Split(date_str, "-"), 1, 2, 3),
        NumericDate(Split(date_str, "/"), 3, 1, 2))

\* the date string tried after int(): an ISO string is parsed and dropped,
\* another one goes through the formats
DateStringDate(date_str) ==
    IF Contains(date_str, "T") THEN NotDated ELSE StrptimeFormats(date_str)

\* the timestamp's date if int(date_str) and fromtimestamp succeeded, else
\* the date string's
TimestampOrString(date_str, from_timestamp) ==
    IF from_timestamp.found THEN from_timestamp ELSE DateStringDate(date_str)

\* what one pattern of date_patterns yields: nothing without a match, else
\* the match as a timestamp, else as a date string
PatternDate(date_str) ==
    IF date_str = None THEN NotDated
    ELSE TimestampOrString(date_str,
            IF AllDigits(date_str) THEN TimestampDate(date_str) ELSE NotDated)

\* the first of six results that has a date
FirstDated6(a, b, c, d, e, f) ==
    IF a.found THEN a ELSE IF b.found THEN b ELSE IF c.found THEN c
    ELSE IF d.found THEN d ELSE IF e.found THEN e ELSE f

\* the loop over date_patterns on the page's text
ScanPatterns(s, low) ==
    FirstDated6(
        PatternDate(Search("digits", "\"createdat\":", s, low)),
        PatternDate(Search("quoted", "\"createdat\":", s, low)),
        PatternDate(Search("attr", "data-created=\"", s, low)),
        PatternDate(Search("human", "posted on ", s, low)),
        PatternDate(Search("tag", "posting-date", s, low)),
        PatternDate(Search("digits", "\"publishedat\":", s, low)))

\* Method 2 of get_published_date on the answer for the posting's page
Method2(job_url, page) ==
    IF job_url = "" \/ page.raises THEN NotDated
    ELSE ScanPatterns(page.text, Lower(page.text))

\* what get_published_date returns, given what its two methods yield
PublishedDate(method1, method2) ==
    IF method1.found THEN [original |-> method1.original, local |-> method1.local]
    ELSE IF method2.found
    THEN [original |-> method2.original, local |-> method2.local]
    ELSE [original |-> "1970-01-01 00:00:00", local |-> "1970-01-01 00:00:00"]

\* lever/batch_from_api.get_published_date, given the answers to its requests
get_published_date(detail, job_url, page) ==
    PublishedDate(Method1(detail), Method2(job_url, page))

----------------------------------------------------------------------------
(* lever/batch_from_api: fetch, filter, date, sort and append.             *)

RECURSIVE Join(_, _)
\* sep.join(parts)
Join(sep, parts) ==
    IF parts = <<>> THEN ""
    ELSE IF Len(parts) = 1 THEN parts[1]
    ELSE parts[1] \o sep \o Join(sep, Tail(parts))

\* the location_str of get_all_jobs: categories.location is a str (kept as
\* it is), a list (joined if it is not empty) or anything else
LocationStr(location) ==
    IF location.kind = "str" THEN location.value[1]
    ELSE IF location.kind = "list" /\ location.value # <<>>
    THEN Join(", ", location.value)
    ELSE "Location not specified"

\* the dict get_all_jobs appends for a posting: Team is team[0] of
\* categories.team, a str, or "" if it is empty or absent
LeverJob(company, posting, location_str) ==
    [Company |-> Capitalize(company), Title |-> posting.text,
     Location |-> location_str, URL |-> posting.hostedUrl, ID |-> posting.id,
     Team |-> CharAt(posting.team, 1)]

\* one pass of the loop of get_all_jobs over data
LeverPass(before, company, posting, location_str, found) ==
    IF found.result THEN Append(before, LeverJob(company, posting, location_str))
    ELSE before

\* search() on a posting's title and location_str
LeverFound(posting, location_str) ==
    LeverSearch(<<posting.text, location_str>>, LEVER_SEARCH_FILTERS)

RECURSIVE LeverScan(_, _)
\* the loop of lever/batch_from_api.get_all_jobs
LeverScan(company, data) ==
    IF data = <<>> THEN <<>>
    ELSE LeverPass(LeverScan(company, SubSeq(data, 1, Len(data) - 1)),
                   company,
                   data[Len(data)],
                   LocationStr(data[Len(data)].location),
                   LeverFound(data[Len(data)],
                              LocationStr(data[Len(data)].location)))

\* lever/batch_from_api.get_all_jobs: the primary endpoint's postings, the
\* alternate endpoint's if the primary request fails, [] if both fail
LeverGetAllJobs(company, primary, alternate) ==
    IF ~primary.fails THEN LeverScan(company, primary.postings)
    ELSE IF ~alternate.fails THEN LeverScan(company, alternate.postings)
    ELSE <<>>

\* the job with the two date fields process_company sets
LeverDatedJob(job, pub_date) ==
    [Company |-> job.Company, Title |-> job.Title, Location |-> job.Location,
     URL |-> job.URL, ID |-> job.ID, Team |-> job.Team,
     Date_Published |-> pub_date.original,
     Local_Date_Published |-> pub_date.local]

\* what the posting's endpoint and the posting's page answer, in a world
\* where each id and each URL has one answer; a job without URL has no page
DetailOf(world, job) == world.detail[job.ID]
PageOf(world, job) ==
    IF job.URL = "" THEN [raises |-> TRUE, text |-> ""] ELSE world.page[job.URL]

\* the loop of lever/batch_from_api.process_company over all_jobs
LeverFinalJobs(all_jobs, world) ==
    [i \in 1..Len(all_jobs) |->
        LeverDatedJob(all_jobs[i],
                      get_published_date(DetailOf(world, all_jobs[i]),
                                         all_jobs[i].URL,
                                         PageOf(world, all_jobs[i])))]

\* fieldnames of lever/batch_from_api.save_to_csv
LEVER_FIELDNAMES ==
    <<"Company", "Title", "ID", "Team", "Location", "URL", "Date Published",
      "Local Date Published">>

\* DictWriter.writerow of a job of lever/batch_from_api
LeverRow(job) ==
    <<job.Company, job.Title, job.ID, job.Team, job.Location, job.URL,
      job.Date_Published, job.Local_Date_Published>>

LeverRows(jobs) == [i \in 1..Len(jobs) |-> LeverRow(jobs[i])]

\* lever/batch_from_api.process_company after its loop
LeverProcessDated(file, sorted_jobs) ==
    SavedAll(file, LEVER_FIELDNAMES, sorted_jobs, LeverRows(sorted_jobs))

\* lever/batch_from_api.process_company after get_all_jobs
LeverProcessFetched(file, all_jobs, world) ==
    IF all_jobs = <<>>
    THEN NotSaved(file, "no_matching_jobs",
                  [error |-> "", failed |-> FALSE, jobs |-> <<>>])
    ELSE LeverProcessDated(file,
                           SortedBySortKey(LeverFinalJobs(all_jobs, world)))

\* lever/batch_from_api.process_company
LeverProcessCompany(company, primary, alternate, world, file) ==
    LeverProcessFetched(file, LeverGetAllJobs(company, primary, alternate),
                        world)

----------------------------------------------------------------------------
(* Runs of the browser scripts on bounded inputs.                          *)

\* the longest list of raw listings a run is given
MaxJobs == 2
\* the number of runs of a script in one behaviour
MaxRuns == 2

\* raw listings as get_jobs_with_selenium returns them: a listing with the
\* same token in its path and in gh_jid, a senior role, a listing of an
\* excluded location on a search URL, one whose path and gh_jid differ, and
\* one with an empty gh_jid and no number in its path
Listings ==
    { [Title |-> "Software Engineer", Location |-> "Singapore",
       URL |-> "stripe.com/jobs/listing/swe/71?gh_jid=71"],
      [Title |-> "Senior Engineer", Location |-> "Remote Canada",
       URL |-> "stripe.com/jobs/listing/senior/72?gh_jid=72"],
      [Title |-> "Backend Engineer", Location |-> "Bengaluru India",
       URL |-> "stripe.com/jobs/search?gh_jid=73"],
      [Title |-> "Data Engineer", Location |-> "Toronto",
       URL |-> "stripe.com/jobs/listing/data/75?gh_jid=76"],
      [Title |-> "QA Engineer", Location |-> "Dublin",
       URL |-> "stripe.com/jobs/listing/?gh_jid="] }

\* the lists of at most n listings, repetitions allowed
JobLists(n) == UNION { [1..k -> Listings] : k \in 0..n }

\* the tokens the listings can yield
Tokens == { "71", "72", "73", "75", "76" }

\* what the job_app endpoint answers for a token: the request raises
\* RequestException, or the text holds "published_at": "<value>", or holds
\* no published_at at all (None)
Answer(raises, published_at) ==
    [raises |-> raises, published_at |-> published_at]

\* an endpoint that answers every token with a date strptime accepts
AllResolved ==
    [t \in Tokens |->
        CASE t = "71" -> Answer(FALSE, "2024-03-01T10:00:00-04:00")
          [] t = "72" -> Answer(FALSE, "2024-05-20T08:30:00.123456+00:00")
          [] t = "73" -> Answer(FALSE, "2023-12-31T23:59:59Z")
          [] t = "75" -> Answer(FALSE, "2024-05-20T09:00:00+0530")
          [] OTHER    -> Answer(FALSE, "2024-04-10T12:00:00+00:00")]

\* an endpoint that fails for some tokens: no published_at for 71, a value
\* in another format for 72, a failed request for 75 and 76
SomeUnresolved ==
    [t \in Tokens |->
        CASE t = "71" -> Answer(FALSE, None)
          [] t = "72" -> Answer(FALSE, "2024-05-20 08:30")
          [] t = "73" -> Answer(FALSE, "2023-12-31T23:59:59Z")
          [] OTHER    -> Answer(TRUE, None)]

DetailWorlds == { AllResolved, SomeUnresolved }

\* OrgConfig(name, keywords, special_exceptions, exclude_senior_roles,
\*           exclude_unwanted_locations)
OrgConfigs ==
    { [name |-> "stripe", use_exceptions |-> FALSE,
       exclude_senior_roles |-> TRUE, exclude_unwanted_locations |-> TRUE],
      [name |-> "airbnb", use_exceptions |-> TRUE,
       exclude_senior_roles |-> TRUE, exclude_unwanted_locations |-> TRUE],
      [name |-> "lyft", use_exceptions |-> FALSE,
       exclude_senior_roles |-> FALSE, exclude_unwanted_locations |-> FALSE] }

InitBrowser ==
    /\ \/ script = "gh_frontend" /\ org \in OrgConfigs
       \/ script = "from_browser" /\ org = IdleOrg
    /\ net \in { [answers |-> TRUE, detail |-> w] : w \in DetailWorlds }
    /\ query = <<>>
    /\ filters = <<>>
    /\ ghOut = NotRun
    /\ lvOut = NotRun
    /\ csv = NoFile
    /\ last = NoRun
    /\ prev = NoRun

\* the tokens get_published_date was requested for, in order: the loop of
\* save_to_csv calls it once for a job, right before it appends the job to
\* new_jobs
RequestedTokens(new_jobs) == [i \in 1..Len(new_jobs) |-> new_jobs[i].Token]

\* the date lookups and the delays of the loop of save_to_csv, in order: one
\* get_published_date for each job it collects, and no time.sleep
BrowserLoopSteps(new_jobs) ==
    [i \in 1..Len(new_jobs) |-> "get_published_date"]

\* what a run of save_to_csv did: the listings it was given, how it ended,
\* the jobs it collected as new, the detail requests it issued, its lookups
\* and delays, and the rows it appended
RunRecord(n, jobs, r) ==
    [n |-> n, jobs |-> jobs, outcome |-> r.outcome, error |-> r.error,
     new_jobs |-> r.new_jobs, requested |-> RequestedTokens(r.new_jobs),
     steps |-> BrowserLoopSteps(r.new_jobs),
     appended |-> r.appended]

\* a run of greenhouse/batch_from_frontend: main() hands the listings of the
\* organization to save_to_csv and catches what it raises
RunFrontendSave ==
    /\ script = "gh_frontend"
    /\ last.n < MaxRuns
    /\ \E jobs \in JobLists(MaxJobs) :
         \E r \in {FrontendSaveToCsv(jobs, org, csv, net.detail)} :
            /\ csv' = r.file
            /\ last' = RunRecord(last.n + 1, jobs, r)
            /\ prev' = last
    /\ UNCHANGED <<script, query, filters, ghOut, lvOut, org, net>>

\* a run of from_browser: main() hands the listings to save_to_csv
RunBrowserSave ==
    /\ script = "from_browser"
    /\ last.n < MaxRuns
    /\ \E jobs \in JobLists(MaxJobs) :
         \E r \in {BrowserSaveToCsv(jobs, csv, net.detail)} :
            /\ csv' = r.file
            /\ last' = RunRecord(last.n + 1, jobs, r)
            /\ prev' = last
    /\ UNCHANGED <<script, query, filters, ghOut, lvOut, org, net>>

NextBrowser == RunFrontendSave \/ RunBrowserSave

SpecBrowser == InitBrowser /\ [][NextBrowser]_vars

----------------------------------------------------------------------------
(* Claims about the browser scripts, checked under SpecBrowser.            *)

\* the Token fields of rows written with BROWSER_FIELDNAMES
TokensOfRows(rows) == {rows[i][1] : i \in 1..Len(rows)}

\* the latest run was given the listings of the run before it, and that run
\* persisted its new rows
SecondRunOfSameListings ==
    /\ last.n >= 2
    /\ prev.outcome = "saved"
    /\ last.jobs = prev.jobs

\* C1: in greenhouse/batch_from_frontend and in from_browser, a run that
\* follows a run which persisted its new rows, and is given the same list of
\* raw listings under the same configuration, appends no row to the CSV, and
\* no token persisted by the first run is among the second run's new_jobs.
C1_IdempotentDedup ==
    SecondRunOfSameListings =>
        /\ last.appended = <<>>
        /\ \A i \in 1..Len(last.new_jobs) :
              last.new_jobs[i].Token \notin TokensOfRows(prev.appended)

\* a second run of greenhouse/batch_from_frontend on the listings of a first
\* run that persisted rows has ended with nothing new
C1_Witness ==
    /\ script = "gh_frontend"
    /\ SecondRunOfSameListings
    /\ Len(prev.appended) >= 1
    /\ last.outcome = "no_new_jobs"

\* C3: after any sequence of runs of greenhouse/batch_from_frontend.save_to_csv
\* for one organization, the lists possibly naming a job more than once, no
\* two data rows of the organization's CSV have the same Token.
C3_TokenUniqueness ==
    script = "gh_frontend" =>
        \A i, j \in 2..Len(csv.lines) :
            i # j => csv.lines[i][1] # csv.lines[j][1]

\* the Date Published values get_published_date gives a listing it finds no
\* date for
UnresolvedDates == {"Date not found", "1970-01-01"}

\* C8: a run of greenhouse/batch_from_frontend.save_to_csv whose loop collected
\* a new listing with no date appends every new listing of the run, the
\* unresolved ones with their marker, and each unresolved row comes after
\* every resolved row among the rows the run appended.
C8_UnresolvedHandling ==
    ( /\ script = "gh_frontend"
      /\ last.n >= 1
      /\ last.error # "UnboundLocalError"
      /\ \E i \in 1..Len(last.new_jobs) :
            last.new_jobs[i].Date_Published \in UnresolvedDates )
    => /\ last.outcome = "saved"
       /\ \A i \in 1..Len(last.new_jobs) :
             \E k \in 1..Len(last.appended) :
                last.appended[k] = BrowserRow(last.new_jobs[i])
       /\ \A k, m \in 1..Len(last.appended) :
             ( /\ last.appended[k][5] \in UnresolvedDates
               /\ last.appended[m][5] \notin UnresolvedDates ) => m < k

\* the rows of the file before the latest run appended to it
LinesBefore == SubSeq(csv.lines, 1, Len(csv.lines) - Len(last.appended))

\* the tokens stored before the latest run
TokensBefore ==
    IF LinesBefore = <<>> THEN {} ELSE TokensOfRows(Tail(LinesBefore))

\* C20: in save_to_csv of greenhouse/batch_from_frontend, whatever the
\* organization's configuration, a listing that a filter rejects or whose
\* token cannot be extracted is skipped without raising, and every listing
\* of the batch that passes the filters and is not yet in the store is
\* persisted by the run (the dates of all listings being resolved).
C20_PerListingContainment ==
    ( /\ script = "gh_frontend"
      /\ last.n >= 1
      /\ net.detail = AllResolved )
    => /\ last.outcome # "raised"
       /\ \A i \in 1..Len(last.jobs) :
             FrontendVerdict(last.jobs[i], org, TokensBefore) = "new"
                => FrontendExtractToken(last.jobs[i].URL)
                      \in TokensOfRows(last.appended)

\* the file as it was before the latest run
FileBefore == [exists |-> LinesBefore # <<>>, lines |-> LinesBefore]

\* the tokens load_existing_tokens gave the latest run
LoadedBefore ==
    IF script = "gh_frontend" THEN FrontendLoadExistingTokens(FileBefore).tokens
    ELSE BrowserLoadExistingTokens(FileBefore).tokens

\* C21: in a run of save_to_csv of greenhouse/batch_from_frontend and of
\* from_browser, no token get_published_date is requested for is among the
\* tokens loaded from the store at the start of the run, nor among the
\* tokens the earlier runs persisted.
C21_NoNetworkReplay ==
    last.n >= 1 =>
        \A i \in 1..Len(last.requested) :
            /\ last.requested[i] \notin LoadedBefore
            /\ last.requested[i] \notin TokensBefore

\* a second run of from_browser, after a run that persisted rows, was given a
\* listing already stored and a listing not yet stored, and requested the
\* date of the latter
C21_Witness ==
    /\ script = "from_browser"
    /\ last.n = 2
    /\ prev.outcome = "saved"
    /\ Len(last.requested) = 1
    /\ \E i \in 1..Len(last.jobs) :
          BrowserExtractToken(last.jobs[i].URL) \in TokensBefore

----------------------------------------------------------------------------
(* Runs of the API batch scripts on bounded inputs.                        *)

\* a job of the payload of boards-api.greenhouse.io/v1/boards/<company>/jobs
GhPayloadJob(title, location, id, first_published, updated_at) ==
    [title |-> title, location |-> location,
     absolute_url |-> "boards.greenhouse.io/stripe/jobs/" \o id, id |-> id,
     first_published |-> first_published, updated_at |-> updated_at]

\* jobs of a payload: an older and a newer one with dates in the two
\* supported formats, jobs whose first_published is null, whose updated_at
\* is in another format and whose first_published is absent, and a job the
\* filter rejects
GhPayloadJobs ==
    { GhPayloadJob("Software Engineer", "Toronto", "101",
                   "2024-01-15T14:30:25-05:00", "2024-02-01T09:00:00-05:00"),
      GhPayloadJob("Backend Developer", "Dublin", "102",
                   "2024-03-10T08:00:00.000Z", "2024-03-11T23:30:00.500Z"),
      GhPayloadJob("Python Engineer", "Singapore", "103",
                   None, "2024-03-01T00:00:00Z"),
      GhPayloadJob("Frontend Engineer", "London", "104",
                   "2024-02-20T12:00:00Z", "2024-02-21 12:00"),
      GhPayloadJob("Mobile Developer", "Berlin", "105",
                   Absent, "2024-03-01T00:00:00Z"),
      GhPayloadJob("Account Executive", "New York", "106",
                   None, None) }

\* what the jobs endpoint answers: a failed request, or a payload of at most
\* n jobs
GhBoards(n) ==
    { [fails |-> TRUE, jobs |-> <<>>] }
    \cup { [fails |-> FALSE, jobs |-> jobs] :
              jobs \in UNION { [1..k -> GhPayloadJobs] : k \in 0..n } }

\* a posting of the payload of api.lever.co/v0/postings/<company>
LeverPosting(text, kind, value, team, hostedUrl, id) ==
    [text |-> text, location |-> [kind |-> kind, value |-> value],
     team |-> team, hostedUrl |-> hostedUrl, id |-> id]

\* postings of a payload: a location given as a str, one given as a list on
\* a posting without URL, one without location, and a second str
LeverPostings ==
    { LeverPosting("Backend Engineer", "str", <<"Toronto">>, "Engineering",
                   "jobs.lever.co/netflix/a1", "a1"),
      LeverPosting("Platform Developer", "list", <<"Berlin", "Remote">>,
                   "Platform", "", "b2"),
      LeverPosting("Data Engineer", "absent", <<>>, "",
                   "jobs.lever.co/netflix/c3", "c3"),
      LeverPosting("iOS Developer", "str", <<"Dublin">>, "Mobile",
                   "jobs.lever.co/netflix/d4", "d4") }

\* what a postings endpoint answers: a failed request, or at most n postings
LeverPayloads(n) ==
    { [fails |-> TRUE, postings |-> <<>>] }
    \cup { [fails |-> FALSE, postings |-> ps] :
              ps \in UNION { [1..k -> LeverPostings] : k \in 0..n } }

\* the requests of one run of get_all_jobs: the alternate endpoint is asked
\* only if the primary request fails
LeverUpstreams(n) ==
    { [primary |-> p, alternate |-> [fails |-> TRUE, postings |-> <<>>]] :
         p \in { q \in LeverPayloads(n) : ~q.fails } }
    \cup { [primary |-> [fails |-> TRUE, postings |-> <<>>], alternate |-> a] :
              a \in LeverPayloads(n) }

LeverIds == { "a1", "b2", "c3", "d4" }
LeverUrls == { "jobs.lever.co/netflix/a1", "jobs.lever.co/netflix/c3",
               "jobs.lever.co/netflix/d4" }

\* the answer of a posting's endpoint and of a posting's page
LeverDetail(raises, kind, text) ==
    [raises |-> raises, createdAt |-> CreatedAt(kind, text)]
LeverPage(raises, text) == [raises |-> raises, text |-> text]

\* a world where the endpoint dates a1 in milliseconds and b2 by an ISO
\* string, and the page dates d4
DatedWorld ==
    [answers |-> TRUE,
     detail |-> [i \in LeverIds |->
        CASE i = "a1" -> LeverDetail(FALSE, "int", "1705329025000")
          [] i = "b2" -> LeverDetail(FALSE, "str", "2024-03-10T08:00:00Z")
          [] i = "c3" -> LeverDetail(FALSE, "int", "1700000000")
          [] OTHER    -> LeverDetail(TRUE, "absent", "")],
     page |-> [u \in LeverUrls |->
        CASE u = "jobs.lever.co/netflix/d4" ->
                LeverPage(FALSE, "<p>Posted on March 5, 2024</p>")
          [] OTHER -> LeverPage(FALSE, "<p>Apply</p>")]]

\* a world where a1 has no date anywhere, b2 is dated in seconds, and the
\* page of d4 holds an ISO string
PartlyDatedWorld ==
    [answers |-> TRUE,
     detail |-> [i \in LeverIds |->
        CASE i = "a1" -> LeverDetail(TRUE, "absent", "")
          [] i = "b2" -> LeverDetail(FALSE, "int", "1709251200")
          [] i = "c3" -> LeverDetail(FALSE, "other", "")
          [] OTHER    -> LeverDetail(FALSE, "absent", "")],
     page |-> [u \in LeverUrls |->
        CASE u = "jobs.lever.co/netflix/a1" -> LeverPage(TRUE, "")
          [] u = "jobs.lever.co/netflix/d4" ->
                LeverPage(FALSE, "<i class=\"posting-date\">2024-01-15T10:00:00Z</i>")
          [] OTHER -> LeverPage(FALSE, "\"createdAt\": 1700000000000")]]

LeverWorlds == { DatedWorld, PartlyDatedWorld }

\* the company of COMPANIES a behaviour processes
Company(name) ==
    [name |-> name, use_exceptions |-> FALSE, exclude_senior_roles |-> FALSE,
     exclude_unwanted_locations |-> FALSE]

InitApi ==
    /\ \/ script = "gh_batch_api" /\ org = Company("stripe")
                                  /\ net = [answers |-> TRUE]
       \/ script = "lever_batch_api" /\ org = Company("netflix")
                                     /\ net \in LeverWorlds
    /\ query = <<>>
    /\ filters = <<>>
    /\ ghOut = NotRun
    /\ lvOut = NotRun
    /\ csv = NoFile
    /\ last = NoRun
    /\ prev = NoRun

\* the URLs greenhouse/batch_from_api.get_all_jobs requests: jobs_api_url,
\* whatever the answer
GhRequests(company, board) ==
    <<"https://boards-api.greenhouse.io/v1/boards/" \o company \o "/jobs">>

\* the URLs lever/batch_from_api.get_all_jobs requests: jobs_api_url, and
\* jobs_api_url_alt if the first request fails
LeverRequests(company, primary, alternate) ==
    IF primary.fails
    THEN <<"https://api.lever.co/v0/postings/" \o company,
           "https://api.lever.co/v0/postings/" \o company \o "?mode=json">>
    ELSE <<"https://api.lever.co/v0/postings/" \o company>>

\* the loop of greenhouse/batch_from_api.process_company over all_jobs: the
\* dates come with the payload, each pass ends with time.sleep(0.5)
GhLoopSteps(all_jobs) == [i \in 1..Len(all_jobs) |-> "sleep"]

\* the loop of lever/batch_from_api.process_company over all_jobs: each pass
\* calls get_published_date and ends with time.sleep(0.7)
LeverLoopSteps(all_jobs) ==
    [i \in 1..(2 * Len(all_jobs)) |->
        IF i % 2 = 1 THEN "get_published_date" ELSE "sleep"]

\* the lookups and delays of a run of process_company, which hands to
\* save_to_csv the jobs its loop went through
ApiLoopSteps(handed) ==
    IF script = "lever_batch_api" THEN LeverLoopSteps(handed)
    ELSE GhLoopSteps(handed)

\* what a run of process_company did: what the upstream answered, the URLs
\* get_all_jobs requested, how the run ended, its lookups and delays, the
\* jobs it handed to save_to_csv and the rows it appended
ApiRunRecord(n, upstream, requests, r) ==
    [n |-> n, upstream |-> upstream, requests |-> requests,
     steps |-> ApiLoopSteps(r.handed),
     outcome |-> r.outcome, error |-> r.error,
     failed |-> r.failed, handed |-> r.handed, appended |-> r.appended,
     returned |-> r.returned]

\* main() of greenhouse/batch_from_api calls process_company for the company
\* and catches what it raises
RunGhProcessCompany ==
    /\ script = "gh_batch_api"
    /\ last.n < MaxRuns
    /\ \E board \in GhBoards(MaxJobs) :
         \E r \in {GhProcessCompany(org.name, board, csv)} :
            /\ csv' = r.file
            /\ last' = ApiRunRecord(last.n + 1, board,
                                    GhRequests(org.name, board), r)
            /\ prev' = last
    /\ UNCHANGED <<script, query, filters, ghOut, lvOut, org, net>>

\* main() of lever/batch_from_api calls process_company for the company
RunLeverProcessCompany ==
    /\ script = "lever_batch_api"
    /\ last.n < MaxRuns
    /\ \E up \in LeverUpstreams(MaxJobs) :
         \E r \in {LeverProcessCompany(org.name, up.primary, up.alternate,
                                       net, csv)} :
            /\ csv' = r.file
            /\ last' = ApiRunRecord(last.n + 1, up,
                                    LeverRequests(org.name, up.primary,
                                                  up.alternate), r)
            /\ prev' = last
    /\ UNCHANGED <<script, query, filters, ghOut, lvOut, org, net>>

NextApi == RunGhProcessCompany \/ RunLeverProcessCompany

SpecApi == InitApi /\ [][NextApi]_vars

----------------------------------------------------------------------------
(* Claims about the API batch scripts, checked under SpecApi.              *)

ApiScripts == {"gh_batch_api", "lever_batch_api"}

\* C2: a run of process_company of greenhouse/batch_from_api or of
\* lever/batch_from_api that follows a run which saved rows for the same
\* company, the upstream answering as before, appends no row to the
\* company's CSV.
C2_IdempotentApiDedup ==
    ( /\ script \in ApiScripts
      /\ last.n >= 2
      /\ prev.outcome = "saved"
      /\ last.upstream = prev.upstream )
    => last.appended = <<>>

\* the jobs of a fetched greenhouse payload that search() accepts
MatchingGhJobs(board) ==
    { board.jobs[i] : i \in
        { k \in 1..Len(board.jobs) :
            GhSearch(<<board.jobs[k].title, board.jobs[k].location>>,
                     GH_SEARCH_FILTERS).result } }

\* C9: a run of greenhouse/batch_from_api.process_company whose fetch
\* succeeded does not end by an exception, whatever the first_published and
\* updated_at of the payload's jobs are (absent, null, another format), and
\* every job of the payload that passes the filter is persisted.
C9_DateResolutionNeverRaises ==
    ( /\ script = "gh_batch_api"
      /\ last.n >= 1
      /\ ~last.upstream.fails )
    => /\ last.outcome # "raised"
       /\ \A job \in MatchingGhJobs(last.upstream) :
             \E k \in 1..Len(last.appended) : last.appended[k][3] = job.id

\* the Date Published of a job no method of lever's get_published_date dated
UnresolvedOriginal == "1970-01-01 00:00:00"

\* the day of a job's Date Published, as a number
PublishDay(job) == YmdKey(SubSeq(job.Date_Published, 1, 10))

\* C10: the jobs process_company of greenhouse/batch_from_api and of
\* lever/batch_from_api hands to save_to_csv are in descending order of
\* publish date (of two jobs, the earlier in the list is not the older), and no
\* unresolved job comes before a resolved one.
C10_SortOrder ==
    ( /\ script \in ApiScripts
      /\ last.n >= 1
      /\ last.outcome = "saved" )
    => \A i, j \in 1..Len(last.handed) :
          i < j =>
            /\ PublishDay(last.handed[i]) >= PublishDay(last.handed[j])
            /\ last.handed[i].Date_Published = UnresolvedOriginal
                  => last.handed[j].Date_Published = UnresolvedOriginal

\* get_all_jobs of the latest run reported the fetch as failed: it returned
\* [] because no request was answered
FetchReportedFailed ==
    IF script = "gh_batch_api" THEN last.upstream.fails
    ELSE last.upstream.primary.fails /\ last.upstream.alternate.fails

\* the ID fields of jobs of lever/batch_from_api
IdsOf(jobs) == {jobs[i].ID : i \in 1..Len(jobs)}

\* C13: get_all_jobs of greenhouse/batch_from_api and of lever/batch_from_api
\* reports the fetch as failed only after it has requested the primary
\* endpoint and an alternate endpoint; and when the primary request fails
\* and the alternate one is answered, the alternate's payload is what is
\* filtered and returned.
C13_EndpointFallback ==
    ( /\ script \in ApiScripts
      /\ last.n >= 1 )
    => /\ FetchReportedFailed => Len(last.requests) >= 2
       /\ ( /\ script = "lever_batch_api"
            /\ last.upstream.primary.fails
            /\ ~last.upstream.alternate.fails )
          => IdsOf(last.handed)
               = IdsOf(LeverScan(org.name, last.upstream.alternate.postings))

----------------------------------------------------------------------------
(* The store of each script over a sequence of runs: the runs of the       *)
(* browser scripts and of the API batch scripts, each on its own file.     *)

InitStore == InitBrowser \/ InitApi

NextStore ==
    \/ RunFrontendSave
    \/ RunBrowserSave
    \/ RunGhProcessCompany
    \/ RunLeverProcessCompany

SpecStore == InitStore /\ [][NextStore]_vars

\* the fieldnames save_to_csv of the behaviour's script writes as header
FieldnamesOfScript ==
    CASE script = "gh_batch_api" -> GH_API_FIELDNAMES
      [] script = "lever_batch_api" -> LEVER_FIELDNAMES
      [] OTHER -> BROWSER_FIELDNAMES

\* the header row is the first row of a file and no other row of it
HeaderOnce(file, fieldnames) ==
    file.lines # <<>> =>
        /\ file.lines[1] = fieldnames
        /\ \A i \in 2..Len(file.lines) : file.lines[i] # fieldnames

\* sequence a is a prefix of sequence b
IsPrefix(a, b) == Len(a) <= Len(b) /\ SubSeq(b, 1, Len(a)) = a

\* C15: in every script, after any sequence of runs of save_to_csv on a
\* file, the file holds the header row once, as its first row, and what the
\* file held before a run is a prefix of what it holds after the run.
C15_AppendOnlyHeaderOnce ==
    /\ [](csv.exists => HeaderOnce(csv, FieldnamesOfScript))
    /\ [][ /\ IsPrefix(csv.lines, csv'.lines)
           /\ csv.exists => csv'.exists ]_vars

\* two runs in a row appended rows to the file
C15_Witness ==
    /\ last.n >= 2
    /\ prev.outcome = "saved"
    /\ last.outcome = "saved"
    /\ Len(csv.lines) >= 3
    /\ Len(last.appended) >= 1

\* C22: in a run of process_company of lever/batch_from_api and in a run of
\* save_to_csv of greenhouse/batch_from_frontend, a delay step (time.sleep)
\* lies between any two successive get_published_date calls.
C22_ThrottledDateLookups ==
    ( /\ script \in {"lever_batch_api", "gh_frontend"}
      /\ last.n >= 1 )
    => \A i, j \in 1..Len(last.steps) :
          ( /\ i < j
            /\ last.steps[i] = "get_published_date"
            /\ last.steps[j] = "get_published_date" )
          => \E k \in (i + 1)..(j - 1) : last.steps[k] = "sleep"

----------------------------------------------------------------------------
(* Single calls of the date, location, store and pagination functions on   *)
(* bounded inputs.                                                         *)

\* createdAt in milliseconds and the ISO string of the same instant
MillisExample == "1700000000000"
IsoExample == "2023-11-14T22:13:20Z"
\* 10^12, the threshold of `created_at > 1e12`
TenToThe12 == "1000000000000"
\* the epoch as an ISO string
EpochIso == "1970-01-01T00:00:00Z"

\* answers of a posting's endpoint: createdAt in milliseconds, in seconds, at
\* the threshold and next to it, at the epoch, as ISO strings, as a text that
\* is no date, absent, and a failed request
DateDetails ==
    { LeverDetail(FALSE, "int", MillisExample),
      LeverDetail(FALSE, "int", "1700000000"),
      LeverDetail(FALSE, "int", TenToThe12),
      LeverDetail(FALSE, "int", "1000000000001"),
      LeverDetail(FALSE, "int", "999999999999"),
      LeverDetail(FALSE, "int", "0"),
      LeverDetail(FALSE, "str", IsoExample),
      LeverDetail(FALSE, "str", EpochIso),
      LeverDetail(FALSE, "str", "last week"),
      LeverDetail(FALSE, "absent", ""),
      LeverDetail(TRUE, "absent", "") }

\* answers for a posting's page: a failed request, a page without a date, a
\* page with createdAt in milliseconds, one dated at the epoch's day, one
\* with an ISO createdAt, and one with an ISO createdAt before a "Posted on"
DatePages ==
    { LeverPage(TRUE, ""),
      LeverPage(FALSE, "<p>Apply</p>"),
      LeverPage(FALSE, "{\"createdAt\": 1700000000000}"),
      LeverPage(FALSE, "<time data-created=\"1970-01-01\">"),
      LeverPage(FALSE, "{\"createdAt\": \"2023-11-14T22:13:20Z\"}"),
      LeverPage(FALSE, "{\"createdAt\": \"2023-11-14T22:13:20Z\"} Posted on May 20, 2024") }

\* the hostedUrl of a posting, "" for a posting that has none
PostingUrls == { "", "jobs.lever.co/netflix/a1" }

\* answers of the job_app endpoint for one token: a failed request, a text
\* without published_at, the epoch in the two formats, a date, and a value
\* in another format
PublishedAnswers ==
    { Answer(TRUE, None),
      Answer(FALSE, None),
      Answer(FALSE, EpochIso),
      Answer(FALSE, "1970-01-01T00:00:00.000+00:00"),
      Answer(FALSE, "2024-03-01T10:00:00-04:00"),
      Answer(FALSE, "2024-05-20 08:30") }

\* postings whose categories.location has each shape: absent, null, a str, an
\* empty str, an empty list, a list of an empty str, lists of strs
LocationPostings ==
    { LeverPosting("Backend Engineer", k.kind, k.value, "Engineering",
                   "jobs.lever.co/netflix/a1", "a1") :
        k \in { [kind |-> "absent", value |-> <<>>],
                [kind |-> "null", value |-> <<>>],
                [kind |-> "str", value |-> <<"Toronto">>],
                [kind |-> "str", value |-> <<"">>],
                [kind |-> "list", value |-> <<>>],
                [kind |-> "list", value |-> <<"">>],
                [kind |-> "list", value |-> <<"", "Dublin">>],
                [kind |-> "list", value |-> <<"Berlin", "Remote">>] } }

\* three raw listings of a board's pages
SweListing ==
    [Title |-> "Software Engineer", Location |-> "Singapore",
     URL |-> "stripe.com/jobs/listing/swe/71?gh_jid=71"]
DataListing ==
    [Title |-> "Data Engineer", Location |-> "Toronto",
     URL |-> "stripe.com/jobs/listing/data/75?gh_jid=76"]
IndiaListing ==
    [Title |-> "Backend Engineer", Location |-> "Bengaluru India",
     URL |-> "stripe.com/jobs/search?gh_jid=73"]

\* stores load_existing_tokens may find: no file, an empty file, a header
\* alone, a row as save_to_csv writes it, a file without URL column, and
\* files with a data row shorter than the header
StoreFiles ==
    { NoFile,
      [exists |-> TRUE, lines |-> <<>>],
      [exists |-> TRUE, lines |-> <<BROWSER_FIELDNAMES>>],
      [exists |-> TRUE,
       lines |-> <<BROWSER_FIELDNAMES,
                   <<"71", "Software Engineer", "Singapore",
                     "stripe.com/jobs/listing/swe/71?gh_jid=71", "2024-03-01">> >>],
      [exists |-> TRUE,
       lines |-> << <<"Token", "Title">>, <<"71", "Software Engineer">> >>],
      [exists |-> TRUE,
       lines |-> <<BROWSER_FIELDNAMES, <<"71", "Software Engineer">> >>],
      [exists |-> TRUE,
       lines |-> <<BROWSER_FIELDNAMES,
                   <<"76", "Data Engineer", "Toronto",
                     "stripe.com/jobs/listing/data/75?gh_jid=76", "2024-04-10">>,
                   <<"71">> >>] }

\* a page of the embedded job board: its job rows, and whether it shows the
\* button 'Go to page N+1'
Page(rows, next) == [rows |-> rows, next |-> next]

\* boards of finitely many pages: one page, two pages, a second page without
\* rows, a board without any job, a job in an excluded location, and a board
\* whose three pages are all read
PageBoards ==
    { <<Page(<<SweListing>>, FALSE)>>,
      <<Page(<<SweListing>>, TRUE), Page(<<DataListing>>, FALSE)>>,
      <<Page(<<SweListing>>, TRUE), Page(<<>>, FALSE)>>,
      <<Page(<<>>, FALSE)>>,
      <<Page(<<IndiaListing>>, FALSE)>>,
      <<Page(<<SweListing>>, TRUE), Page(<<DataListing>>, TRUE),
        Page(<<IndiaListing>>, FALSE)>> }

\* what get_jobs_with_selenium did: the exception that left it, the list it
\* returned, the listings it had collected and the pages it had loaded; each
\* pass of the loop calls get_driver() for its page, and driver.quit() is
\* called once, after the loop, on the driver of the last pass
PagesRead(error, returned, collected, pages) ==
    [error |-> error, returned |-> returned, collected |-> collected,
     pages |-> pages,
     drivers_created |-> pages,
     drivers_quit |-> IF error = "" THEN 1 ELSE 0]

RECURSIVE ReadPage(_, _, _)
\* one pass of the `while page:` loop of get_jobs_with_selenium: wait.until
\* raises TimeoutException after 20 seconds on a page without job rows; else
\* the rows are appended and the loop goes on if the page has the button
ReadPage(board, page, jobs) ==
    IF page > Len(board) \/ board[page].rows = <<>>
    THEN PagesRead("TimeoutException", <<>>, jobs, page)
    ELSE IF board[page].next
    THEN ReadPage(board, page + 1, jobs \o board[page].rows)
    ELSE PagesRead("", jobs \o board[page].rows, jobs \o board[page].rows, page)

\* greenhouse/batch_from_frontend.get_jobs_with_selenium on a board
get_jobs_with_selenium(board) == ReadPage(board, 1, <<>>)

\* titles and locations handed to greenhouse/from_api.search
ListQueries ==
    { <<t, l>> : t \in { "Software Engineer", "Python Developer", "Accountant" },
                 l \in { "Toronto", "London", "Sydney, Australia",
                         "Melbourne", "Lagos" } }

\* filter lists for greenhouse/from_api.search: the configured ones, lists
\* of one length, more locations than titles, more titles than locations
ListFilters ==
    { FROM_API_SEARCH_FILTERS,
      [titles |-> <<"engineer", "developer">>,
       locations |-> <<"toronto", "london">>],
      [titles |-> <<"engineer">>, locations |-> <<"toronto", "london">>],
      [titles |-> <<"analyst", "engineer">>, locations |-> <<"london">>] }

\* the filters of a single call: those of the script that is called
UnitFilters ==
    IF script = "from_api_search" THEN ListFilters ELSE {<<>>}

\* the input of the one call a behaviour makes
InitUnits ==
    /\ \/ /\ script = "from_api_search"
          /\ query \in ListQueries
       \/ /\ script = "lever_date"
          /\ query \in { [detail |-> d, job_url |-> u, page |-> g] :
                            d \in DateDetails, u \in PostingUrls, g \in DatePages }
       \/ /\ script = "frontend_date"
          /\ query \in { [resp |-> a] : a \in PublishedAnswers }
       \/ /\ script = "lever_location"
          /\ query \in { [posting |-> x] : x \in LocationPostings }
       \/ /\ script = "frontend_store"
          /\ query \in { [file |-> f, jobs |-> j] :
                            f \in StoreFiles,
                            j \in { <<SweListing>>, <<DataListing, SweListing>> } }
       \/ /\ script = "frontend_pages"
          /\ query \in { [board |-> b] : b \in PageBoards }
    /\ filters \in UnitFilters
    /\ ghOut = NotRun
    /\ lvOut = NotRun
    /\ org = IdleOrg
    /\ net = NoNet
    /\ csv = NoFile
    /\ last = NoRun
    /\ prev = NoRun

\* a call of lever/batch_from_api.get_published_date
CallLeverGetPublishedDate ==
    /\ script = "lever_date"
    /\ last.n = 0
    /\ \E r \in {get_published_date(query.detail, query.job_url, query.page)} :
          last' = [n |-> 1, original |-> r.original, local |-> r.local]
    /\ UNCHANGED <<script, query, filters, ghOut, lvOut, org, net, csv, prev>>

\* a call of greenhouse/batch_from_frontend.get_published_date
CallFrontendGetPublishedDate ==
    /\ script = "frontend_date"
    /\ last.n = 0
    /\ last' = [n |-> 1, date |-> FrontendGetPublishedDate(query.resp)]
    /\ UNCHANGED <<script, query, filters, ghOut, lvOut, org, net, csv, prev>>

\* a call of lever/batch_from_api.get_all_jobs when the primary endpoint
\* answers one posting: the location_str handed to search() and the jobs
\* returned
CallLeverGetAllJobs ==
    /\ script = "lever_location"
    /\ last.n = 0
    /\ last' = [n |-> 1,
                location_str |-> LocationStr(query.posting.location),
                jobs |-> LeverGetAllJobs("netflix",
                            [fails |-> FALSE, postings |-> <<query.posting>>],
                            [fails |-> TRUE, postings |-> <<>>])]
    /\ UNCHANGED <<script, query, filters, ghOut, lvOut, org, net, csv, prev>>

\* a call of greenhouse/batch_from_frontend.save_to_csv on a store that is
\* already there: what load_existing_tokens did and how save_to_csv ended
CallFrontendSaveToCsv ==
    /\ script = "frontend_store"
    /\ last.n = 0
    /\ \E loaded \in {FrontendLoadExistingTokens(query.file)} :
       \E r \in {FrontendSaveToCsv(query.jobs, org, query.file, AllResolved)} :
          /\ csv' = r.file
          /\ last' = [n |-> 1, load_error |-> loaded.error,
                      tokens |-> loaded.tokens, outcome |-> r.outcome,
                      error |-> r.error, appended |-> r.appended]
    /\ UNCHANGED <<script, query, filters, ghOut, lvOut, org, net, prev>>

\* a call of greenhouse/batch_from_frontend.get_jobs_with_selenium
CallGetJobsWithSelenium ==
    /\ script = "frontend_pages"
    /\ last.n = 0
    /\ \E r \in {get_jobs_with_selenium(query.board)} :
          last' = [n |-> 1, error |-> r.error, returned |-> r.returned,
                   collected |-> r.collected, pages |-> r.pages,
                   open_drivers |-> r.drivers_created - r.drivers_quit]
    /\ UNCHANGED <<script, query, filters, ghOut, lvOut, org, net, csv, prev>>

\* a call of greenhouse/from_api.search
CallFromApiSearch ==
    /\ script = "from_api_search"
    /\ last.n = 0
    /\ last' = [n |-> 1, result |-> FromApiSearch(query, filters)]
    /\ UNCHANGED <<script, query, filters, ghOut, lvOut, org, net, csv, prev>>

NextUnits ==
    \/ CallLeverGetPublishedDate
    \/ CallFrontendGetPublishedDate
    \/ CallLeverGetAllJobs
    \/ CallFrontendSaveToCsv
    \/ CallGetJobsWithSelenium
    \/ CallFromApiSearch

SpecUnits == InitUnits /\ [][NextUnits]_vars

----------------------------------------------------------------------------
(* Claims about single calls, checked under SpecUnits.                     *)

\* the createdAt of the call is the integer written n
CreatedAtInt(n) ==
    /\ script = "lever_date"
    /\ last.n = 1
    /\ query.detail = LeverDetail(FALSE, "int", n)

\* C11: get_published_date resolves "createdAt": 1700000000000 to the instant
\* of "createdAt": "2023-11-14T22:13:20Z"; an integer above 10^12 is divided
\* by 1000 (1000000000001 is the second 1000000000), an integer at or below
\* 10^12 is taken as seconds (1700000000 is that second, and 10^12 seconds,
\* after the year 9999, is no date: without a page to scan nothing is found).
C11_DateFallbackChain ==
    /\ CreatedAtInt(MillisExample) =>
          EpochOf(last.local, 0) = EpochOf(IsoExample, 0)
    /\ ( /\ script = "lever_date"
         /\ last.n = 1
         /\ query.detail = LeverDetail(FALSE, "str", IsoExample) ) =>
          EpochOf(last.local, 0) = EpochOf(IsoExample, 0)
    /\ CreatedAtInt("1000000000001") => EpochOf(last.local, 0) = 1000000000
    /\ CreatedAtInt("1700000000") => EpochOf(last.local, 0) = 1700000000
    /\ CreatedAtInt("0") => EpochOf(last.local, 0) = 0
    /\ (CreatedAtInt(TenToThe12) /\ query.job_url = "") =>
          last.original = UnresolvedOriginal

\* a call that resolved the milliseconds of the example
C11_Witness ==
    /\ CreatedAtInt(MillisExample)
    /\ last.local = "2023-11-14 22:13:20 UTC"

\* C14: get_jobs_with_selenium ends on a page without a 'Go to page N+1'
\* button and on a page without job rows alike: it raises nothing and
\* returns the listings collected from the pages read so far.
C14_PaginationTermination ==
    ( /\ script = "frontend_pages"
      /\ last.n = 1 )
    => /\ last.error = ""
       /\ last.returned = last.collected

\* C16: in lever's get_all_jobs, whatever the shape of categories.location,
\* the location string handed to search() and stored in a job is not the
\* empty string, and a posting without location data (no key, null, an
\* empty list) gets "Location not specified".
C16_LocationNormalization ==
    ( /\ script = "lever_location"
      /\ last.n = 1 )
    => /\ last.location_str # ""
       /\ \A i \in 1..Len(last.jobs) : last.jobs[i].Location # ""
       /\ ( \/ query.posting.location.kind \in {"absent", "null"}
            \/ query.posting.location.value = <<>> )
          => last.location_str = "Location not specified"

\* C17: load_existing_tokens of greenhouse/batch_from_frontend raises nothing
\* on a missing or malformed store (no file: the empty set; a file without
\* URL column or with a data row shorter than the header: a set), and
\* save_to_csv goes on with the run.
C17_StoreReadFailure ==
    ( /\ script = "frontend_store"
      /\ last.n = 1 )
    => /\ last.load_error = ""
       /\ last.outcome # "raised"
       /\ ~query.file.exists => last.tokens = {}

\* C27: when get_jobs_with_selenium of greenhouse/batch_from_frontend
\* returns, every WebDriver it created, one for each page it loaded, has
\* been quit: no driver is left open, however many pages the board has.
C27_BrowserSessionsReleased ==
    ( /\ script = "frontend_pages"
      /\ last.n = 1
      /\ last.error = "" )
    => last.open_drivers = 0

\* some entry of the list is a case-insensitive substring of the text
SomeEntryIn(entries, text) ==
    \E i \in 1..Len(entries) : Contains(Lower(text), Lower(entries[i]))

\* C25: greenhouse/from_api.search returns True exactly when some entry of
\* filters['titles'] is a case-insensitive substring of the title and some
\* entry of filters['locations'] is one of the location, whatever the
\* lengths of the two lists; so every configured location ('london',
\* 'sydney', 'melbourne') can meet the location condition.
C25_ListSearch ==
    (script = "from_api_search" /\ last.n = 1) =>
        ( last.result <=> ( /\ SomeEntryIn(filters.titles, query[1])
                            /\ SomeEntryIn(filters.locations, query[2]) ) )

\* the value the page text holds after "createdAt": in quotes, None if none
QuotedCreatedAt(text) == Search("quoted", "\"createdat\":", text, Lower(text))

\* C23: when the detail endpoint yields no date and the text of the posting's
\* page holds "createdAt": "<an ISO-8601 string>", get_published_date of
\* lever/batch_from_api returns the date of that string (createdAt is the
\* first pattern of the page whose value parses), not the unresolved
\* sentinel.
C23_PageTextDateScan ==
    ( /\ script = "lever_date"
      /\ last.n = 1
      /\ ~Method1(query.detail).found
      /\ query.job_url # ""
      /\ ~query.page.raises
      /\ QuotedCreatedAt(query.page.text) # None
      /\ IsIsoformat(Replace(QuotedCreatedAt(query.page.text), "Z", "+00:00")) )
    => /\ last.original # UnresolvedOriginal
       /\ last.original =
             FromIsoformat(Replace(QuotedCreatedAt(query.page.text),
                                   "Z", "+00:00")).original

\* the job_app answer gives no date: the request failed, or the text has no
\* published_at, or one that neither format parses
NoPublishedDate(resp) ==
    \/ resp.raises
    \/ resp.published_at = None
    \/ /\ ~MatchesIsoFraction(resp.published_at)
       /\ ~MatchesIsoSeconds(resp.published_at)

\* what the two functions return for a listing published at the epoch
FrontendEpochDate == FrontendGetPublishedDate(Answer(FALSE, EpochIso))
LeverEpochDates ==
    { get_published_date(d, "", LeverPage(TRUE, "")).original :
        d \in { LeverDetail(FALSE, "int", "0"), LeverDetail(FALSE, "str", EpochIso) } }

\* C19: what get_published_date of greenhouse/batch_from_frontend and of
\* lever/batch_from_api returns when no date could be determined differs
\* from what it returns for a listing whose date is 1970-01-01T00:00:00Z.
C19_UnresolvedIsNotEpochZero ==
    /\ ( /\ script = "frontend_date"
         /\ last.n = 1
         /\ NoPublishedDate(query.resp) )
       => last.date # FrontendEpochDate
    /\ ( /\ script = "lever_date"
         /\ last.n = 1
         /\ query.detail.raises \/ query.detail.createdAt.kind = "absent"
         /\ query.job_url = "" )
       => last.original \notin LeverEpochDates

----------------------------------------------------------------------------
(* main() of the three batch scripts: the loop over the organizations.     *)

\* the number of organizations of its list that main() goes through
MaxOrgs == 3

\* COMPANIES.keys() of greenhouse/batch_from_api
GH_COMPANIES ==
    <<"stripe", "lyft", "gitlab", "coinbase", "tripadvisor", "robinhood",
      "twilio", "databricks", "snapmobileinc", "reddit", "pinterest">>

\* COMPANIES.keys() of lever/batch_from_api
LEVER_COMPANIES == <<"netflix", "spotify", "palantir">>

\* orgs of main() of greenhouse/batch_from_frontend
FRONTEND_ORGS ==
    << [name |-> "snapmobileinc", use_exceptions |-> FALSE,
        exclude_senior_roles |-> TRUE, exclude_unwanted_locations |-> TRUE],
       [name |-> "stripe", use_exceptions |-> FALSE,
        exclude_senior_roles |-> TRUE, exclude_unwanted_locations |-> TRUE],
       [name |-> "lyft", use_exceptions |-> FALSE,
        exclude_senior_roles |-> TRUE, exclude_unwanted_locations |-> TRUE],
       [name |-> "airbnb", use_exceptions |-> TRUE,
        exclude_senior_roles |-> TRUE, exclude_unwanted_locations |-> TRUE] >>

\* the organizations a behaviour goes through: the first MaxOrgs of the list
FirstOrgs(list) ==
    SubSeq(list, 1, IF Len(list) < MaxOrgs THEN Len(list) ELSE MaxOrgs)

\* the job of GhPayloadJobs with an id, the posting of LeverPostings with one
GhJobOf(id) == CHOOSE j \in GhPayloadJobs : j.id = id
LeverPostingOf(id) == CHOOSE x \in LeverPostings : x.id = id

\* what the jobs endpoint answers for a company: a failed request, a job
\* that matches, a job whose first_published is null, a job the filter
\* rejects, two jobs that match
GhMainBoards ==
    { [fails |-> TRUE, jobs |-> <<>>],
      [fails |-> FALSE, jobs |-> <<GhJobOf("101")>>],
      [fails |-> FALSE, jobs |-> <<GhJobOf("103")>>],
      [fails |-> FALSE, jobs |-> <<GhJobOf("106")>>],
      [fails |-> FALSE, jobs |-> <<GhJobOf("102"), GhJobOf("101")>>] }

\* what the two postings endpoints answer for a company: both fail, the
\* primary answers, only the alternate answers, a posting the filter rejects
LeverMainUpstreams ==
    { [primary |-> [fails |-> TRUE, postings |-> <<>>],
       alternate |-> [fails |-> TRUE, postings |-> <<>>]],
      [primary |-> [fails |-> FALSE, postings |-> <<LeverPostingOf("a1")>>],
       alternate |-> [fails |-> TRUE, postings |-> <<>>]],
      [primary |-> [fails |-> TRUE, postings |-> <<>>],
       alternate |-> [fails |-> FALSE, postings |-> <<LeverPostingOf("d4")>>]],
      [primary |-> [fails |-> FALSE, postings |-> <<LeverPostingOf("c3")>>],
       alternate |-> [fails |-> TRUE, postings |-> <<>>]] }

MainScripts == {"gh_batch_main", "lever_batch_main", "gh_frontend_main"}

\* the locals of main() before its loop, and failed_companies
MainStart ==
    [n |-> 0, phase |-> "loop", interrupted |-> FALSE, outcomes |-> <<>>,
     successful_companies |-> 0, total_jobs |-> 0, failed_companies |-> <<>>,
     listed |-> <<>>]

InitMain ==
    /\ \/ /\ script = "gh_batch_main"
          /\ org = FirstOrgs(GH_COMPANIES)
          /\ net \in { [answers |-> TRUE, upstream |-> u] :
                          u \in [1..Len(FirstOrgs(GH_COMPANIES)) -> GhMainBoards] }
       \/ /\ script = "lever_batch_main"
          /\ org = FirstOrgs(LEVER_COMPANIES)
          /\ net \in { [answers |-> TRUE, upstream |-> u,
                        detail |-> DatedWorld.detail, page |-> DatedWorld.page] :
                          u \in [1..Len(FirstOrgs(LEVER_COMPANIES)) -> LeverMainUpstreams] }
       \/ /\ script = "gh_frontend_main"
          /\ org = FirstOrgs(FRONTEND_ORGS)
          /\ net \in { [answers |-> TRUE, upstream |-> u, detail |-> AllResolved] :
                          u \in [1..Len(FirstOrgs(FRONTEND_ORGS)) -> PageBoards] }
    /\ query = <<>>
    /\ filters = <<>>
    /\ ghOut = NotRun
    /\ lvOut = NotRun
    /\ csv = [i \in 1..Len(org) |-> NoFile]
    /\ last = MainStart
    /\ prev = NoRun

\* the mutant of LoopAfter: an exception in process_company ends the loop
LoopEndsAtException(outcome) == IF outcome = "raised" THEN "summary" ELSE "loop"

\* where main() is after one pass of its loop: `except Exception` ends in
\* `continue`, so the loop goes on whatever process_company did
LoopAfter(outcome) == "loop"

\* main() after process_company(company) did r: the counters, and
\* failed_companies, which get_all_jobs appends to
ProcessedOne(m, company, r, phase) ==
    [m EXCEPT !.n = @ + 1,
              !.phase = phase,
              !.outcomes = Append(@, [company |-> company, outcome |-> r.outcome,
                                      error |-> r.error, returned |-> r.returned]),
              !.successful_companies = IF r.returned > 0 THEN @ + 1 ELSE @,
              !.total_jobs = @ + r.returned,
              !.failed_companies = IF r.failed THEN Append(@, company) ELSE @]

\* one pass of the loop of main() of greenhouse/batch_from_api
GhMainStep ==
    /\ script = "gh_batch_main"
    /\ last.phase = "loop"
    /\ last.n < Len(org)
    /\ \E r \in {GhProcessCompany(org[last.n + 1], net.upstream[last.n + 1],
                                  csv[last.n + 1])} :
          /\ csv' = [csv EXCEPT ![last.n + 1] = r.file]
          /\ last' = ProcessedOne(last, org[last.n + 1], r, LoopAfter(r.outcome))
    /\ UNCHANGED <<script, query, filters, ghOut, lvOut, org, net, prev>>

\* one pass of the loop of main() of lever/batch_from_api
LeverMainStep ==
    /\ script = "lever_batch_main"
    /\ last.phase = "loop"
    /\ last.n < Len(org)
    /\ \E r \in {LeverProcessCompany(org[last.n + 1],
                                     net.upstream[last.n + 1].primary,
                                     net.upstream[last.n + 1].alternate,
                                     net, csv[last.n + 1])} :
          /\ csv' = [csv EXCEPT ![last.n + 1] = r.file]
          /\ last' = ProcessedOne(last, org[last.n + 1], r, LoopAfter(r.outcome))
    /\ UNCHANGED <<script, query, filters, ghOut, lvOut, org, net, prev>>

\* the body of the try of main() of greenhouse/batch_from_frontend, pages
\* being what get_jobs_with_selenium(org) did: save_to_csv is called with
\* the jobs it returned
FrontendProcessOrg(o, pages, file, answers) ==
    IF pages.error # "" THEN Raised(file, pages.error, <<>>)
    ELSE FrontendSaveToCsv(pages.returned, o, file, answers)

\* one pass of the loop of main() of greenhouse/batch_from_frontend
FrontendMainStep ==
    /\ script = "gh_frontend_main"
    /\ last.phase = "loop"
    /\ last.n < Len(org)
    /\ \E r \in {FrontendProcessOrg(org[last.n + 1],
                    get_jobs_with_selenium(net.upstream[last.n + 1]),
                    csv[last.n + 1], net.detail)} :
          /\ csv' = [csv EXCEPT ![last.n + 1] = r.file]
          /\ last' = [last EXCEPT
                        !.n = @ + 1,
                        !.phase = LoopAfter(r.outcome),
                        !.outcomes = Append(@, [company |-> org[last.n + 1].name,
                                                outcome |-> r.outcome,
                                                error |-> r.error,
                                                returned |-> Len(r.appended)])]
    /\ UNCHANGED <<script, query, filters, ghOut, lvOut, org, net, prev>>

\* the user interrupts the script while an organization is fetched: the API
\* scripts catch KeyboardInterrupt and leave the loop, the frontend script
\* does not catch it
UserInterrupt ==
    /\ script \in MainScripts
    /\ last.phase = "loop"
    /\ last.n < Len(org)
    /\ last' = [last EXCEPT !.interrupted = TRUE,
                            !.phase = IF script = "gh_frontend_main"
                                      THEN "aborted" ELSE "summary"]
    /\ UNCHANGED <<script, query, filters, ghOut, lvOut, org, net, csv, prev>>

\* main() after its loop: the final summary. greenhouse/batch_from_api
\* prints failed_companies `if len(failed_companies) > 1`; the other two
\* scripts name no company
MainSummary ==
    /\ script \in MainScripts
    /\ last.phase \in {"loop", "summary"}
    /\ last.phase = "loop" => last.n = Len(org)
    /\ last' = [last EXCEPT
                  !.phase = "done",
                  !.listed = IF /\ script = "gh_batch_main"
                                /\ Len(last.failed_companies) > 1
                             THEN last.failed_companies ELSE <<>>]
    /\ UNCHANGED <<script, query, filters, ghOut, lvOut, org, net, csv, prev>>

NextMain ==
    \/ GhMainStep
    \/ LeverMainStep
    \/ FrontendMainStep
    \/ UserInterrupt
    \/ MainSummary

SpecMain == InitMain /\ [][NextMain]_vars

----------------------------------------------------------------------------
(* Claims about main(), checked under SpecMain.                            *)

\* what processing the i-th organization alone, from no file, does
ProcessedAlone(i) ==
    CASE script = "gh_batch_main" ->
            GhProcessCompany(org[i], net.upstream[i], NoFile)
      [] script = "lever_batch_main" ->
            LeverProcessCompany(org[i], net.upstream[i].primary,
                                net.upstream[i].alternate, net, NoFile)
      [] OTHER ->
            FrontendProcessOrg(org[i], get_jobs_with_selenium(net.upstream[i]),
                               NoFile, net.detail)

\* main() ran to its end without a user interrupt
MainRanThrough ==
    /\ script \in MainScripts
    /\ last.phase = "done"
    /\ ~last.interrupted

\* C12: when main() of a batch script has run through, every organization of
\* the list was processed, whatever happened to the others (a fetch that
\* fails, an exception), and its file holds what processing it alone
\* persists.
C12_PartialFailureIsolation ==
    MainRanThrough =>
        /\ last.n = Len(org)
        /\ \A i \in 1..Len(org) :
              /\ last.outcomes[i].outcome = ProcessedAlone(i).outcome
              /\ csv[i] = ProcessedAlone(i).file

\* a run in which the second organization raised and the first and the
\* third were saved
C12_Witness ==
    /\ MainRanThrough
    /\ Len(org) >= 3
    /\ last.outcomes[1].outcome = "saved"
    /\ last.outcomes[2].outcome = "raised"
    /\ last.outcomes[3].outcome = "saved"
    /\ Len(csv[3].lines) >= 2

\* C18: the final summary of main() of greenhouse/batch_from_api lists every
\* organization that failed or produced zero results in the run, however
\* many they are.
C18_EndOfRunSummary ==
    ( /\ script = "gh_batch_main"
      /\ last.phase = "done"
      /\ ~last.interrupted )
    => \A i \in 1..Len(last.outcomes) :
          last.outcomes[i].returned = 0 =>
             \E k \in 1..Len(last.listed) :
                last.listed[k] = last.outcomes[i].company

----------------------------------------------------------------------------
(* Runs of greenhouse/batch_from_frontend.save_to_csv that end by an       *)
(* exception: runs in a row on the store the script wrote, and single runs *)
(* on a store that may be malformed.                                       *)

InitAborts ==
    \/ InitBrowser /\ script = "gh_frontend"
    \/ InitUnits /\ script = "frontend_store"

NextAborts == RunFrontendSave \/ CallFrontendSaveToCsv

SpecAborts == InitAborts /\ [][NextAborts]_vars

\* the organization's CSV as the run that is starting finds it
StoreBefore == IF script = "frontend_store" THEN query.file ELSE csv

\* C26: a run of greenhouse/batch_from_frontend.save_to_csv that ends by an
\* exception (raised while the store is loaded, in a filter, or by the
\* sort) leaves the organization's CSV exactly as it found it: no row and no
\* header is added.
C26_StoreUnchangedOnAbort ==
    [][ (last'.n = last.n + 1 /\ last'.outcome = "raised")
           => (csv' = StoreBefore /\ last'.appended = <<>>) ]_vars

\* after a run that saved rows, a second run has ended by an exception
C26_Witness ==
    /\ script = "gh_frontend"
    /\ last.n = 2
    /\ prev.outcome = "saved"
    /\ last.outcome = "raised"
    /\ Len(csv.lines) >= 2

====
